---- MODULE Spec2Model ----
(***************************************************************************)
(* A model of the trust-engine HTTP handlers: /transactions, /link-wallet, *)
(* /create-wallet, /find-wallet, /register, /search, /validators/data and  *)
(* /health, running against a ledger, a storage provider, a custodial      *)
(* wallet provider and the action-token datastore.  Every handler is a     *)
(* process that yields at each await of an external call; requests run     *)
(* concurrently in request slots.  Beside the handlers: the connection     *)
(* pool of the datastore module and the registerFile call of the SDK.      *)
(***************************************************************************)
EXTENDS Integers, Sequences, FiniteSets, TLC

VARIABLES
    relations,      \* ledger: accounts of the identity-link program
    registrations,  \* ledger: content registration accounts
    actions,        \* datastore: rows of transaction_actions
    wallets,        \* custodial provider: wallets it has created
    now,            \* the clock Date.now() reads, in milliseconds
    req,            \* the request each slot is serving
    sdk,            \* client side: the registerFile call of the SDK
    db              \* the datastore module: its pool and the calls into it

vars == <<relations, registrations, actions, wallets, now, req, sdk, db>>

\* ------------------------------------------------------------------ bounds

\* Longest instruction list of a client-supplied transaction.
MaxInstr == 2

\* Number of wallets the custodial provider can hand out.
MaxCustodial == 1

\* Number of times the clock advances.
MaxTicks == 3

\* ---------------------------------------------------------- request values

\* JavaScript values of request fields: a string carries its text in s.
Undefined == [type |-> "undefined"]
Str(s) == [type |-> "string", s |-> s]
Num == [type |-> "number"]
Bool(b) == [type |-> "boolean", b |-> b]

\* JavaScript truthiness of a field value: `if (x)`, `!x`.
Truthy(v) ==
    CASE v.type = "undefined" -> FALSE
      [] v.type = "string" -> v.s # ""
      [] v.type = "boolean" -> v.b
      [] OTHER -> TRUE

\* dependencies.validateFields: the fields that are absent and the fields
\* that are present but are not strings.
validateFields(fields) ==
    [missing |-> {k \in DOMAIN fields : ~Truthy(fields[k]) /\ fields[k].type \in {"undefined", "string"}},
     invalidTypes |-> {k \in DOMAIN fields : fields[k].type \notin {"undefined", "string"}}]

\* ------------------------------------------------------------------ ledger

\* Program identifiers.
zkp_program == "zkp_program"
user_key_relations_program == "user_key_relations_program"
staking_program == "staking_program"
SystemProgram == "SystemProgram"
ComputeBudgetProgram == "ComputeBudgetProgram"
ForeignProgram == "ForeignProgram"
OtherForeignProgram == "OtherForeignProgram"

\* PublicKey.findProgramAddressSync: the address is a function of the program
\* and of the seed parts in their declared order, and of nothing else.
findProgramAddressSync(seeds, programId) == <<programId, seeds>>

\* An instruction that touches no modelled account.
Noop(programId) == [programId |-> programId, op |-> "noop"]

\* The ledger as one value, for the execution of a transaction.
Ledger == [relations |-> relations, registrations |-> registrations]

Occupied(L, address) ==
    \/ \E a \in L.relations : a.address = address
    \/ \E a \in L.registrations : a.address = address

\* Whether the ledger program accepts the instruction: an account is created
\* once, and creating an account that already exists is rejected.
InstrOk(i, L) ==
    CASE i.op = "storeUserKeyRelation" ->
            /\ ~Occupied(L, i.userIdToWalletRelation)
            /\ ~Occupied(L, i.walletToUserIdRelation)
            /\ i.userIdToWalletRelation # i.walletToUserIdRelation
      [] i.op = "submitRegistration" -> ~Occupied(L, i.contentRegistration)
      [] OTHER -> TRUE

\* The ledger after the instruction: storeUserKeyRelation creates both
\* directional records at once, submitRegistration one registration.
InstrApply(i, L) ==
    CASE i.op = "storeUserKeyRelation" ->
            [L EXCEPT !.relations = @ \cup
                {[address |-> i.userIdToWalletRelation, userId |-> i.userID,
                  userPublicKey |-> i.userPublicKey],
                 [address |-> i.walletToUserIdRelation, userId |-> i.userID,
                  userPublicKey |-> i.userPublicKey]}]
      [] i.op = "submitRegistration" ->
            [L EXCEPT !.registrations = @ \cup
                {[address |-> i.contentRegistration, creator |-> i.creator,
                  contentHash |-> i.contentHash, claimHash |-> i.claimHash,
                  ipfsCid |-> i.ipfsCid]}]
      [] OTHER -> L

\* A transaction is atomic: its instructions run in order and the first one
\* the ledger rejects fails the whole transaction.
RECURSIVE Execute(_, _)
Execute(instructions, L) ==
    IF instructions = <<>> THEN [ok |-> TRUE, ledger |-> L]
    ELSE IF ~InstrOk(Head(instructions), L) THEN [ok |-> FALSE, ledger |-> L]
    ELSE Execute(Tail(instructions), InstrApply(Head(instructions), L))

\* What a submission to the ledger can do: the transaction executes, the
\* ledger rejects it, or the call fails before the ledger saw it.
SubmitOutcomes(transaction) ==
    {"unreachable"} \cup
    (IF Execute(transaction.instructions, Ledger).ok THEN {"executed"} ELSE {"rejected"})

\* The ledger after a submission with the given outcome.
LedgerAfter(transaction, outcome) ==
    IF outcome = "executed" THEN Execute(transaction.instructions, Ledger).ledger
    ELSE Ledger

\* account.fetch(address): the account, a not-found error, or another failure.
FetchOutcomes(accounts, address) ==
    {[kind |-> "failure"]} \cup
    (IF \E a \in accounts : a.address = address
     THEN {[kind |-> "found", account |-> a] : a \in {b \in accounts : b.address = address}}
     ELSE {[kind |-> "notFound"]})

\* ---------------------------------------------------------------- requests

Slots == {1, 2}

NoResponse == [status |-> 0]
Idle == [h |-> "idle", ver |-> "none", pc |-> "idle", body |-> [none |-> TRUE],
         loc |-> [none |-> TRUE], after |-> {}, res |-> NoResponse]

\* A request arrives in slot s: `after` names the requests whose response
\* was delivered before this one arrived and is still on record.
Arrive(s, h, ver, body, loc) ==
    [h |-> h, ver |-> ver, pc |-> "idle", body |-> body, loc |-> loc,
     after |-> {t \in Slots \ {s} : req[t].pc = "done"}, res |-> NoResponse]

\* res.status(status).json(...) : the response ends the request.
Respond(r, status, payload) ==
    [r EXCEPT !.pc = "done", !.res = [status |-> status] @@ payload]

\* The response has been delivered and the slot serves the next request.
Release(s) ==
    /\ req[s].pc = "done"
    /\ req' = [t \in Slots |-> IF t = s THEN Idle ELSE [req[t] EXCEPT !.after = @ \ {s}]]
    /\ UNCHANGED <<relations, registrations, actions, wallets, now, sdk, db>>

\* A catch block that logs the error and sends nothing.
Throw_noResponse(r, message) ==
    [r EXCEPT !.pc = "caught"]

\* The catch block of a handler: 500 with the generic message, and the
\* thrown error's message in details.error.
Throw(r, message) ==
    Respond(r, 500, [error |-> TRUE, message |-> "generic", details |-> [error |-> message]])

\* All sequences over S of length at most n.
SeqsUpTo(S, n) == UNION {[1..k -> S] : k \in 0..n}

\* ------------------------------------------------------------ /transactions

\* transaction.serialize() then toString('base64'), and its inverse
\* Transaction.from(Buffer.from(s, 'base64')), which throws on other text.
Base64(transaction) == [type |-> "string", s |-> "base64", tx |-> transaction]
Deserializable(v) == v.type = "string" /\ v.s = "base64"
TransactionFrom(v) == v.tx

\* programId.toString(): the base58 text of a program id.
toBase58(programId) == <<"base58", programId>>

allowedProgramIds ==
    <<zkp_program, user_key_relations_program, staking_program,
      SystemProgram, ComputeBudgetProgram>>

isAllowed(instruction) ==
    \E k \in 1..Len(allowedProgramIds) : instruction.programId = allowedProgramIds[k]

\* The loop over transaction.instructions: the position of the first
\* instruction that is not allowed, 0 when every instruction is allowed.
RECURSIVE FirstUnauthorizedFrom(_, _)
FirstUnauthorizedFrom(instructions, k) ==
    IF k > Len(instructions) THEN 0
    ELSE IF ~isAllowed(instructions[k]) THEN k
    ELSE FirstUnauthorizedFrom(instructions, k + 1)

\* A loop that keeps the last instruction that is not allowed.
FirstUnauthorized_last(instructions) ==
    IF \E k \in 1..Len(instructions) : ~isAllowed(instructions[k])
    THEN CHOOSE k \in 1..Len(instructions) :
            /\ ~isAllowed(instructions[k])
            /\ \A j \in (k + 1)..Len(instructions) : isAllowed(instructions[j])
    ELSE 0

\* A guard that looks at the first instruction only.
FirstUnauthorized_first(instructions) ==
    IF instructions # <<>> /\ ~isAllowed(instructions[1]) THEN 1 ELSE 0

FirstUnauthorized(instructions) == FirstUnauthorizedFrom(instructions, 1)

transactionSignature(transaction) == <<"signature", transaction.instructions>>

\* The validation block of the handler: the list of validation errors.
TxValidationErrors(v) ==
    LET validation == validateFields([transaction |-> v])
    IN  (IF validation.missing # {} THEN {"missing_fields"} ELSE {})
        \cup (IF validation.invalidTypes # {} THEN {"invalid_types"} ELSE {})
        \cup (IF Truthy(v) /\ v.type # "string" THEN {"invalid_format"} ELSE {})

\* The handler up to and including the call of sendRawTransaction.
TxStart(s, v) ==
    /\ req[s].pc = "idle"
    /\ LET r == Arrive(s, "transactions", "current", [transaction |-> v],
                       [checked |-> FALSE, signed |-> FALSE, sendCalled |-> FALSE,
                        sent |-> FALSE, confirmed |-> FALSE])
           errors == TxValidationErrors(v)
       IN  IF errors # {}
           THEN /\ req' = [req EXCEPT ![s] = Respond(r, 400,
                        [error |-> TRUE, details |-> [validationErrors |-> errors]])]
                /\ UNCHANGED <<relations, registrations>>
           ELSE IF ~Deserializable(v)
           THEN /\ req' = [req EXCEPT ![s] = Throw(r, "Transaction.from failed")]
                /\ UNCHANGED <<relations, registrations>>
           ELSE LET transaction == TransactionFrom(v)
                    k == FirstUnauthorized(transaction.instructions)
                IN  IF k # 0
                    THEN /\ req' = [req EXCEPT ![s] = Respond(r, 403,
                                [error |-> TRUE,
                                 details |-> [validationErrors |-> {"unauthorized_program"},
                                     unauthorizedProgram |->
                                        toBase58(transaction.instructions[k].programId),
                                     allowedPrograms |->
                                        [j \in 1..Len(allowedProgramIds) |->
                                            toBase58(allowedProgramIds[j])]]])]
                         /\ UNCHANGED <<relations, registrations>>
                    ELSE \E outcome \in SubmitOutcomes(transaction) :
                         LET signed == [r EXCEPT !.loc.checked = TRUE, !.loc.signed = TRUE,
                                                 !.loc.sendCalled = TRUE]
                             after == LedgerAfter(transaction, outcome)
                         IN  /\ relations' = after.relations
                             /\ registrations' = after.registrations
                             /\ req' = [req EXCEPT ![s] =
                                    IF outcome = "executed"
                                    THEN [signed EXCEPT !.pc = "confirm", !.loc.sent = TRUE]
                                    ELSE Throw(signed, "sendRawTransaction failed")]
    /\ UNCHANGED <<actions, wallets, now, sdk, db>>

\* A handler that answers 200 whether or not confirmTransaction returned.
TxConfirm_unawaited(s) ==
    /\ req[s].h = "transactions" /\ req[s].pc = "confirm"
    /\ \E ok \in BOOLEAN :
         req' = [req EXCEPT ![s] =
            Respond([req[s] EXCEPT !.loc.confirmed = ok], 200,
                    [error |-> FALSE,
                     details |-> [transactionSignature |->
                        transactionSignature(TransactionFrom(req[s].body.transaction))]])]
    /\ UNCHANGED <<relations, registrations, actions, wallets, now, sdk, db>>

\* connection.confirmTransaction returns or throws, then the 200 response.
TxConfirm(s) ==
    /\ req[s].h = "transactions" /\ req[s].pc = "confirm"
    /\ \E ok \in BOOLEAN :
         req' = [req EXCEPT ![s] =
            IF ok
            THEN Respond([req[s] EXCEPT !.loc.confirmed = TRUE], 200,
                    [error |-> FALSE,
                     details |-> [transactionSignature |->
                        transactionSignature(TransactionFrom(req[s].body.transaction))]])
            ELSE Throw(req[s], "confirmTransaction failed")]
    /\ UNCHANGED <<relations, registrations, actions, wallets, now, sdk, db>>

\* ------------------------------------------------------------ /link-wallet

\* Number of characters of a string of the model.
StrLen(t) ==
    CASE t = "" -> 0
      [] t = "u33" -> 33
      [] t = "u200" -> 200
      [] t = "u201" -> 201
      [] OTHER -> 2

\* new PublicKey(walletAddress) returns for these and throws for other text.
PublicKeys == {"w1", "w2", "c1", "c2", "c3"}
ValidPublicKey(v) == v.type = "string" /\ v.s \in PublicKeys

\* findProgramAddressSync throws when a seed is longer than 32 bytes, and
\* Buffer.from throws when the value is not a string.
SeedThrows(v) == v.type # "string" \/ StrLen(v.s) > 32

userIdToWalletRelationPDA(userID) ==
    findProgramAddressSync(<<"user_id_to_wallet", userID>>, user_key_relations_program)

\* A derivation whose seeds leave out the wallet's key.
walletToUserIdRelationPDA_prefixOnly(walletAddress) ==
    findProgramAddressSync(<<"wallet_to_user_id">>, user_key_relations_program)

walletToUserIdRelationPDA(walletAddress) ==
    findProgramAddressSync(<<"wallet_to_user_id", walletAddress>>, user_key_relations_program)

\* An instruction whose wallet-side account is derived from the userID.
storeUserKeyRelation_wrongSeed(userID, userPublicKey, userIdToWalletRelation, walletToUserIdRelation) ==
    [programId |-> user_key_relations_program, op |-> "storeUserKeyRelation",
     userID |-> userID, userPublicKey |-> userPublicKey,
     userIdToWalletRelation |-> userIdToWalletRelation,
     walletToUserIdRelation |-> findProgramAddressSync(<<"wallet_to_user_id", userID>>,
                                    user_key_relations_program)]

\* user_key_relations_program.methods.storeUserKeyRelation(userID).accounts(...)
storeUserKeyRelation(userID, userPublicKey, userIdToWalletRelation, walletToUserIdRelation) ==
    [programId |-> user_key_relations_program, op |-> "storeUserKeyRelation",
     userID |-> userID, userPublicKey |-> userPublicKey,
     userIdToWalletRelation |-> userIdToWalletRelation,
     walletToUserIdRelation |-> walletToUserIdRelation]

\* The validation block of the current /link-wallet handler.
LinkValidationErrors(userID, walletAddress) ==
    LET validation == validateFields([userID |-> userID, walletAddress |-> walletAddress])
    IN  (IF validation.missing # {} THEN {"missing_fields"} ELSE {})
        \cup (IF validation.invalidTypes # {} THEN {"invalid_types"} ELSE {})
        \cup (IF Truthy(walletAddress) /\ ~ValidPublicKey(walletAddress)
              THEN {"invalid_format"} ELSE {})
        \cup (IF Truthy(userID) /\ userID.type = "string" /\ StrLen(userID.s) > 200
              THEN {"invalid_value"} ELSE {})

\* The 409 of the first pre-check: the externalId is linked already.
UserIdConflict(ver, userID, userIdRelation) ==
    IF ver = "current"
    THEN [error |-> TRUE,
          message |-> <<"A wallet is already associated with the User ID", userID>>,
          details |-> [conflictType |-> "User ID already linked", userID |-> userID,
                       existingWallet |-> userIdRelation.userPublicKey]]
    ELSE [error |-> TRUE,
          message |-> <<"A wallet is already associated with the User ID", userID>>]

\* The 409 of the second pre-check: the wallet is linked already.
WalletConflict(ver, walletAddress, walletRelation) ==
    IF ver = "current"
    THEN [error |-> TRUE,
          message |-> <<"This wallet address is already linked to a User ID", walletRelation.userId>>,
          details |-> [conflictType |-> "Wallet already linked", walletAddress |-> walletAddress,
                       existingUserID |-> walletRelation.userId]]
    ELSE [error |-> TRUE,
          message |-> <<"This wallet address is already linked to a User ID", walletRelation.userId>>]

LinkLoc == [infra |-> FALSE, submitted |-> FALSE, created |-> "none"]

\* The handler up to and including the first existence check.
LinkStart(s, ver, userID, walletAddress) ==
    /\ req[s].pc = "idle"
    /\ LET r == Arrive(s, "link", ver, [userID |-> userID, walletAddress |-> walletAddress],
                       LinkLoc)
           errors == IF ver = "current" THEN LinkValidationErrors(userID, walletAddress)
                     ELSE IF ~Truthy(userID) \/ ~Truthy(walletAddress)
                          THEN {"missing_fields"} ELSE {}
       IN  IF errors # {}
           THEN req' = [req EXCEPT ![s] = Respond(r, 400,
                    [error |-> TRUE, details |-> [validationErrors |-> errors]])]
           ELSE IF ~ValidPublicKey(walletAddress)
           THEN req' = [req EXCEPT ![s] = Throw(r, "new PublicKey failed")]
           ELSE IF SeedThrows(userID)
           THEN req' = [req EXCEPT ![s] = Throw(r, "findProgramAddressSync failed")]
           ELSE \E f \in FetchOutcomes(relations, userIdToWalletRelationPDA(userID.s)) :
                req' = [req EXCEPT ![s] =
                    IF f.kind = "found"
                    THEN Respond(r, 409, UserIdConflict(ver, userID.s, f.account))
                    ELSE [r EXCEPT !.pc = "fetch2", !.loc.infra = (f.kind = "failure")]]
    /\ UNCHANGED <<relations, registrations, actions, wallets, now, sdk, db>>

\* The second existence check, of the wallet's record.
LinkFetch2(s) ==
    /\ req[s].h = "link" /\ req[s].pc = "fetch2"
    /\ LET r == req[s]
       IN  \E f \in FetchOutcomes(relations, walletToUserIdRelationPDA(r.body.walletAddress.s)) :
           req' = [req EXCEPT ![s] =
               IF f.kind = "found"
               THEN Respond(r, 409, WalletConflict(r.ver, r.body.walletAddress.s, f.account))
               ELSE [r EXCEPT !.pc = "submit", !.loc.infra = (@ \/ f.kind = "failure")]]
    /\ UNCHANGED <<relations, registrations, actions, wallets, now, sdk, db>>

\* dependencies.submitTransaction: {signature} when the ledger executed the
\* transaction, {error} when the ledger rejected it; it throws when the
\* ledger could not be reached.
submitTransaction(transaction, outcome) ==
    CASE outcome = "executed" -> [kind |-> "result", error |-> "", signature |-> transactionSignature(transaction)]
      [] outcome = "rejected" -> [kind |-> "result", error |-> "ledger rejected the transaction", signature |-> <<"undefined">>]
      [] OTHER -> [kind |-> "throws"]

\* A response that does not look at result.error.
LinkResponse_unchecked(r, result) ==
    IF result.kind = "throws" THEN Throw(r, "submitTransaction failed")
    ELSE Respond(r, 200,
            [error |-> FALSE,
             details |-> [userID |-> r.body.userID.s, walletAddress |-> r.body.walletAddress.s,
                          transactionSignature |-> result.signature]])

\* The response after submitTransaction in /link-wallet.
LinkResponse(r, result) ==
    IF result.kind = "throws" THEN Throw(r, "submitTransaction failed")
    ELSE IF r.ver = "current" /\ result.error # ""
    THEN Respond(r, 500, [error |-> TRUE, message |-> result.error])
    ELSE Respond(r, 200,
            [error |-> FALSE,
             details |-> [userID |-> r.body.userID.s, walletAddress |-> r.body.walletAddress.s,
                          transactionSignature |-> result.signature]])

\* The instruction is built and submitted, and the response sent.
LinkSubmit(s) ==
    /\ req[s].h = "link" /\ req[s].pc = "submit"
    /\ LET r == [req[s] EXCEPT !.loc.submitted = TRUE]
           userID == r.body.userID.s
           publicKey == r.body.walletAddress.s
           transaction == [instructions |-> <<storeUserKeyRelation(userID, publicKey,
                               userIdToWalletRelationPDA(userID),
                               walletToUserIdRelationPDA(publicKey))>>]
       IN  \E outcome \in SubmitOutcomes(transaction) :
           LET after == LedgerAfter(transaction, outcome)
               done == LinkResponse(r, submitTransaction(transaction, outcome))
           IN  /\ relations' = after.relations
               /\ registrations' = after.registrations
               /\ req' = [req EXCEPT ![s] = done]
    /\ UNCHANGED <<actions, wallets, now, sdk, db>>

\* ---------------------------------------------------------- /create-wallet

\* The k-th wallet address the custodial provider hands out.
CustodialWallet(k) == CASE k = 1 -> "c1" [] k = 2 -> "c2" [] OTHER -> "c3"

\* crossmintWallets.createWallet: the next new wallet, or an error.
CreateWalletOutcomes ==
    {"throws"} \cup
    (IF Cardinality(wallets) < MaxCustodial THEN {CustodialWallet(Cardinality(wallets) + 1)} ELSE {})

\* The validation block of /create-wallet.
CreateValidationErrors(userID) ==
    LET validation == validateFields([userID |-> userID])
    IN  (IF validation.missing # {} THEN {"missing_fields"} ELSE {})
        \cup (IF validation.invalidTypes # {} THEN {"invalid_types"} ELSE {})

\* The handler up to and including the check of the userID's record.
CreateStart(s, userID) ==
    /\ req[s].pc = "idle"
    /\ LET r == Arrive(s, "create", "current", [userID |-> userID], LinkLoc)
           errors == CreateValidationErrors(userID)
       IN  IF errors # {}
           THEN req' = [req EXCEPT ![s] = Respond(r, 400,
                    [error |-> TRUE, details |-> [validationErrors |-> errors]])]
           ELSE IF SeedThrows(userID)
           THEN req' = [req EXCEPT ![s] = Throw(r, "findProgramAddressSync failed")]
           ELSE \E f \in FetchOutcomes(relations, userIdToWalletRelationPDA(userID.s)) :
                req' = [req EXCEPT ![s] =
                    IF f.kind = "found"
                    THEN Respond(r, 409, UserIdConflict("current", userID.s, f.account))
                    ELSE [r EXCEPT !.pc = "createWallet", !.loc.infra = (f.kind = "failure")]]
    /\ UNCHANGED <<relations, registrations, actions, wallets, now, sdk, db>>

\* The custodial provider creates the wallet, then the check of its record.
CreateWallet(s) ==
    /\ req[s].h = "create" /\ req[s].pc = "createWallet"
    /\ \E w \in CreateWalletOutcomes :
         IF w = "throws"
         THEN /\ req' = [req EXCEPT ![s] = Throw(req[s], "createWallet failed")]
              /\ UNCHANGED wallets
         ELSE /\ wallets' = wallets \cup {w}
              /\ LET r == [req[s] EXCEPT !.loc.created = w]
                 IN  \E f \in FetchOutcomes(relations, walletToUserIdRelationPDA(w)) :
                     req' = [req EXCEPT ![s] =
                         IF f.kind = "found"
                         THEN Respond(r, 409, WalletConflict("current", w, f.account))
                         ELSE [r EXCEPT !.pc = "submit", !.loc.infra = (@ \/ f.kind = "failure")]]
    /\ UNCHANGED <<relations, registrations, actions, now, sdk, db>>

\* The response after submitTransaction in /create-wallet.
CreateResponse(r, result) ==
    IF result.kind = "throws" THEN Throw(r, "submitTransaction failed")
    ELSE IF result.error # ""
    THEN Respond(r, 500, [error |-> TRUE, message |-> result.error])
    ELSE Respond(r, 201,
            [error |-> FALSE,
             details |-> [userID |-> r.body.userID.s, walletAddress |-> r.loc.created,
                          transactionSignature |-> result.signature]])

\* The link instruction for the new wallet is submitted, and the response sent.
CreateSubmit(s) ==
    /\ req[s].h = "create" /\ req[s].pc = "submit"
    /\ LET r == [req[s] EXCEPT !.loc.submitted = TRUE]
           userID == r.body.userID.s
           publicKey == r.loc.created
           transaction == [instructions |-> <<storeUserKeyRelation(userID, publicKey,
                               userIdToWalletRelationPDA(userID),
                               walletToUserIdRelationPDA(publicKey))>>]
       IN  \E outcome \in SubmitOutcomes(transaction) :
           LET after == LedgerAfter(transaction, outcome)
           IN  /\ relations' = after.relations
               /\ registrations' = after.registrations
               /\ req' = [req EXCEPT ![s] =
                      CreateResponse(r, submitTransaction(transaction, outcome))]
    /\ UNCHANGED <<actions, wallets, now, sdk, db>>

\* ------------------------------------------------------------ /find-wallet

\* A validation that rejects a request without parameters only.
FindValidationErrors_neitherOnly(ver, userID, walletAddress) ==
    (IF ~Truthy(userID) /\ ~Truthy(walletAddress) THEN {"invalid_parameters"} ELSE {})
    \cup (IF ver = "current" /\ Truthy(userID) /\ userID.type # "string"
          THEN {"invalid_types"} ELSE {})
    \cup (IF ver = "current" /\ Truthy(walletAddress) /\ walletAddress.type # "string"
          THEN {"invalid_types"} ELSE {})

\* The validation block of /find-wallet.
FindValidationErrors(ver, userID, walletAddress) ==
    (IF (~Truthy(userID) /\ ~Truthy(walletAddress)) \/ (Truthy(userID) /\ Truthy(walletAddress))
     THEN {"invalid_parameters"} ELSE {})
    \cup (IF ver = "current" /\ Truthy(userID) /\ userID.type # "string"
          THEN {"invalid_types"} ELSE {})
    \cup (IF ver = "current" /\ Truthy(walletAddress) /\ walletAddress.type # "string"
          THEN {"invalid_types"} ELSE {})

\* The response to a fetch of the relation account.
FindResponse(r, searchType, relationPDA, f) ==
    IF f.kind = "found"
    THEN Respond([r EXCEPT !.loc.fetched = TRUE], 200,
            [error |-> FALSE,
             details |-> [searchType |-> searchType,
                          relation |-> [userId |-> f.account.userId,
                                        walletAddress |-> f.account.userPublicKey,
                                        relationPDA |-> relationPDA]]])
    ELSE Respond([r EXCEPT !.loc.infra = (f.kind = "failure"), !.loc.fetched = TRUE],
                 IF r.ver = "current" THEN 409 ELSE 404,
                 [error |-> TRUE, details |-> [searchType |-> searchType]])

\* The whole handler: validation, derivation, one fetch, the response.
Find(s, ver, userID, walletAddress) ==
    /\ req[s].pc = "idle"
    /\ LET r == Arrive(s, "find", ver, [userID |-> userID, walletAddress |-> walletAddress],
                       [infra |-> FALSE, fetched |-> FALSE])
           errors == FindValidationErrors(ver, userID, walletAddress)
       IN  IF errors # {}
           THEN req' = [req EXCEPT ![s] = Respond(r, 400,
                    [error |-> TRUE, details |-> [validationErrors |-> errors]])]
           ELSE IF Truthy(userID)
           THEN IF SeedThrows(userID)
                THEN req' = [req EXCEPT ![s] =
                        IF ver = "current"
                        THEN Respond(r, 400, [error |-> TRUE,
                                details |-> [validationErrors |-> {"invalid_format"}]])
                        ELSE Throw(r, "findProgramAddressSync failed")]
                ELSE \E f \in FetchOutcomes(relations, userIdToWalletRelationPDA(userID.s)) :
                     req' = [req EXCEPT ![s] =
                        FindResponse(r, "userID", userIdToWalletRelationPDA(userID.s), f)]
           ELSE IF ~ValidPublicKey(walletAddress)
                THEN req' = [req EXCEPT ![s] = Respond(r, 400, [error |-> TRUE,
                                details |-> [validationErrors |-> {"invalid_format"}]])]
                ELSE \E f \in FetchOutcomes(relations, walletToUserIdRelationPDA(walletAddress.s)) :
                     req' = [req EXCEPT ![s] =
                        FindResponse(r, "walletAddress", walletToUserIdRelationPDA(walletAddress.s), f)]
    /\ UNCHANGED <<relations, registrations, actions, wallets, now, sdk, db>>

\* ---------------------------------------------------------------- /register

\* /^[a-fA-F0-9]{64}$/ : the strings of the model that are 64 hex characters.
Hex64 == {"h1", "h2", "k1", "z64"}
Is64Hex(v) == v.type = "string" /\ v.s \in Hex64

\* Number of bytes of Buffer.from(text, 'hex'): two hex characters a byte,
\* and the decoding stops at the first character that is not hex.
HexByteLen(t) ==
    CASE t \in Hex64 -> 32
      [] t = "h66" -> 33
      [] t = "ab" -> 1
      [] OTHER -> 0

\* Buffer.from(text, 'hex') as a value: the bytes decoded.
BufferFromHex(t) == IF HexByteLen(t) = 0 THEN "" ELSE t

\* The validation block of the current /register handler: every error found.
RegValidationErrors(b) ==
    LET validation == validateFields([contentHashHex |-> b.contentHash,
                          contentTitle |-> b.contentTitle,
                          walletAddress |-> b.walletAddress, walletType |-> b.walletType])
    IN  (IF validation.missing # {}
         THEN {[type |-> "missing_fields", fields |-> validation.missing]} ELSE {})
        \cup (IF validation.invalidTypes # {}
              THEN {[type |-> "invalid_types", fields |-> validation.invalidTypes]} ELSE {})
        \cup (IF b.walletType \notin {Str("standard"), Str("crossmint")}
              THEN {[type |-> "invalid_value", fields |-> {"walletType"}]} ELSE {})
        \cup (IF b.returnActionLink.type \notin {"undefined", "boolean"}
              THEN {[type |-> "invalid_type", fields |-> {"returnActionLink"}]} ELSE {})
        \cup (IF Truthy(b.claimHash) /\ ~Is64Hex(b.claimHash)
              THEN {[type |-> "invalid_format", fields |-> {"claimHash"}]} ELSE {})
        \cup (IF Truthy(b.metadata) /\ b.metadata.type # "string"
              THEN {[type |-> "invalid_types", fields |-> {"metadata"}]} ELSE {})
        \cup (IF Truthy(b.metadata) /\ b.metadata.type = "string" /\ StrLen(b.metadata.s) > 500
              THEN {[type |-> "invalid_value", fields |-> {"metadata"}]} ELSE {})
        \cup (IF b.walletAddress.type = "string" /\ StrLen(b.walletAddress.s) > 1000
              THEN {[type |-> "invalid_value", fields |-> {"walletAddress"}]} ELSE {})

\* The code before the duplicate check: [status |-> 0] when the request goes
\* on, else the status and the payload of the response that ends it.
RegValidate(ver, b) ==
    IF ver = "current"
    THEN IF (Truthy(b.claimHash) /\ b.claimHash.type # "string")
            \/ b.walletAddress.type = "undefined"
         THEN [status |-> 500, thrown |-> "TypeError"]
         ELSE IF RegValidationErrors(b) # {}
         THEN [status |-> 400, errors |-> RegValidationErrors(b)]
         ELSE IF ~ValidPublicKey(b.walletAddress)
         THEN [status |-> 500, thrown |-> "new PublicKey failed"]
         ELSE IF HexByteLen(b.contentHash.s) > 32
         THEN [status |-> 500, thrown |-> "findProgramAddressSync failed"]
         ELSE [status |-> 0]
    ELSE IF ~Truthy(b.contentHash)
         THEN [status |-> 400, errors |-> {[type |-> "missing_fields", fields |-> {"contentHash"}]}]
         ELSE IF ~Truthy(b.contentTitle) \/ ~Truthy(b.walletAddress) \/ ~Truthy(b.walletType)
         THEN [status |-> 400, errors |-> {[type |-> "missing_fields", fields |->
                    {k \in {"contentTitle", "walletAddress", "walletType"} : ~Truthy(b[k])}]}]
         ELSE IF b.walletType \notin {Str("standard"), Str("crossmint")}
         THEN [status |-> 400, errors |-> {[type |-> "invalid_value", fields |-> {"walletType"}]}]
         ELSE IF Truthy(b.claimHash) /\ ~Is64Hex(b.claimHash)
         THEN [status |-> 400, errors |-> {[type |-> "invalid_format", fields |-> {"claimHash"}]}]
         ELSE IF b.contentHash.type # "string"
         THEN [status |-> 500, thrown |-> "TypeError"]
         ELSE IF ~ValidPublicKey(b.walletAddress)
         THEN [status |-> 500, thrown |-> "new PublicKey failed"]
         ELSE IF HexByteLen(b.contentHash.s) > 32
         THEN [status |-> 500, thrown |-> "findProgramAddressSync failed"]
         ELSE [status |-> 0]

\* zkp_program.methods.submitRegistration(...).accounts(...): the instruction.
submitRegistration(contentHash, claimHashBytes, rootCid, creator, contentRegistration) ==
    [programId |-> zkp_program, op |-> "submitRegistration",
     contentHash |-> contentHash, claimHash |-> claimHashBytes, ipfsCid |-> rootCid,
     creator |-> creator, contentRegistration |-> contentRegistration]

contentRegistrationPda(walletAddress, contentHash) ==
    findProgramAddressSync(<<"content_registration", walletAddress, contentHash>>, zkp_program)

\* The registration address of the request.
RegPda(b) == contentRegistrationPda(b.walletAddress.s, BufferFromHex(b.contentHash.s))

RegLoc == [infra |-> FALSE, uploaded |-> FALSE, rootCid |-> "", built |-> <<>>,
           submitted |-> FALSE, outcome |-> "none", insertCalled |-> FALSE,
           inserted |-> FALSE, issuedAt |-> 0, expiresAt |-> 0]

\* A handler that reads the registration account and ignores what it read.
RegStart_noDuplicateCheck(s, ver, b) ==
    /\ req[s].pc = "idle"
    /\ LET r == Arrive(s, "register", ver, b, RegLoc)
           v == RegValidate(ver, b)
       IN  IF v.status = 400
           THEN req' = [req EXCEPT ![s] = Respond(r, 400,
                    [error |-> TRUE, details |-> [validationErrors |-> v.errors]])]
           ELSE IF v.status = 500
           THEN req' = [req EXCEPT ![s] = Throw(r, v.thrown)]
           ELSE \E f \in FetchOutcomes(registrations, RegPda(b)) :
                req' = [req EXCEPT ![s] =
                    [r EXCEPT !.pc = "checkLink", !.loc.infra = (f.kind = "failure")]]
    /\ UNCHANGED <<relations, registrations, actions, wallets, now, sdk, db>>

\* The handler up to and including the duplicate check.
RegStart(s, ver, b) ==
    /\ req[s].pc = "idle"
    /\ LET r == Arrive(s, "register", ver, b, RegLoc)
           v == RegValidate(ver, b)
       IN  IF v.status = 400
           THEN req' = [req EXCEPT ![s] = Respond(r, 400,
                    [error |-> TRUE, details |-> [validationErrors |-> v.errors]])]
           ELSE IF v.status = 500
           THEN req' = [req EXCEPT ![s] = Throw(r, v.thrown)]
           ELSE \E f \in FetchOutcomes(registrations, RegPda(b)) :
                req' = [req EXCEPT ![s] =
                    IF f.kind = "found"
                    THEN Respond(r, 409, [error |-> TRUE,
                            details |-> [contentHash |-> b.contentHash.s, pdaAddress |-> RegPda(b)]])
                    ELSE [r EXCEPT !.pc = "checkLink", !.loc.infra = (f.kind = "failure")]]
    /\ UNCHANGED <<relations, registrations, actions, wallets, now, sdk, db>>

\* The response to a creator wallet without a wallet-to-identity relation.
MissingRelation(r) ==
    Respond(r, IF r.ver = "current" THEN 409 ELSE 400,
            [error |-> TRUE,
             details |-> [missingRequirement |-> "User-Key Relation",
                          walletAddress |-> r.body.walletAddress.s]])

\* The legacy handler validates the metadata after the relation check, and
\* reads fileMetadata.fileName for its log line.
LegacyMetadataCheck(r) ==
    IF r.ver = "current" THEN [r EXCEPT !.pc = "upload"]
    ELSE IF Truthy(r.body.metadata) /\ r.body.metadata.type # "string"
    THEN Respond(r, 400, [error |-> TRUE,
            details |-> [validationErrors |-> {[type |-> "invalid_types", fields |-> {"metadata"}]}]])
    ELSE IF Truthy(r.body.metadata) /\ StrLen(r.body.metadata.s) > 500
    THEN Respond(r, 400, [error |-> TRUE,
            details |-> [validationErrors |-> {[type |-> "invalid_value", fields |-> {"metadata"}]}]])
    ELSE IF r.body.fileMetadata.type = "undefined"
    THEN Throw(r, "TypeError")
    ELSE [r EXCEPT !.pc = "upload"]

\* The check that the creator wallet has a wallet-to-identity relation.
RegCheckLink(s) ==
    /\ req[s].h = "register" /\ req[s].pc = "checkLink"
    /\ LET r == req[s]
       IN  \E f \in FetchOutcomes(relations, walletToUserIdRelationPDA(r.body.walletAddress.s)) :
           req' = [req EXCEPT ![s] =
               IF f.kind = "found"
               THEN LegacyMetadataCheck(r)
               ELSE MissingRelation([r EXCEPT !.loc.infra = (@ \/ f.kind = "failure")])]
    /\ UNCHANGED <<relations, registrations, actions, wallets, now, sdk, db>>

\* An instruction that never carries the claim hash of the request.
claimHashBytes_alwaysZero(b) == "zero"

\* The claim hash of the instruction: 32 zero bytes unless one is given.
claimHashBytes(b) == IF Truthy(b.claimHash) THEN BufferFromHex(b.claimHash.s) ELSE "zero"

\* The content identifier the storage provider returns for the document.
CidOf(b) == CASE b.contentHash.s = "h1" -> "cid1" [] b.contentHash.s = "h2" -> "cid2" [] OTHER -> "cid0"

\* A dispatch that does not read returnActionLink.
SubmissionMode_noLink(ver, walletType, returnActionLink) ==
    IF walletType = Str("crossmint") THEN "custodial-immediate"
    ELSE "client-deferred-immediate"

\* The submission mode the handler dispatches to.
SubmissionMode(ver, walletType, returnActionLink) ==
    IF walletType = Str("crossmint") THEN "custodial-immediate"
    ELSE IF ver = "current" /\ returnActionLink = Bool(TRUE) THEN "client-deferred-token"
    ELSE "client-deferred-immediate"

\* The transaction a standard wallet is to sign: the registration
\* instruction and the compute-unit price instruction.
ClientTransaction(r) == [instructions |-> r.loc.built \o <<Noop(ComputeBudgetProgram)>>]

\* The 200 response of client-deferred-immediate mode.
RequiresClientSignature(r) ==
    Respond(r, 200,
        [error |-> FALSE,
         details |-> [status |-> "requires-client-signature",
                      transaction |-> Base64(ClientTransaction(r)),
                      ipfsCid |-> r.loc.rootCid,
                      contentRegistrationPDA |-> RegPda(r.body),
                      contentHash |-> r.body.contentHash.s]])

\* 24 * 60 * 60 * 1000: the lifetime of an action token in milliseconds.
ExpiryMs == 86400000

\* expiresAt.toISOString(): the instant in text form, to the millisecond.
toISOString(ms) == <<"iso", ms>>

\* A dispatch that submits the transaction of a standard wallet as well.
RegDispatch_alwaysSubmit(r, blockhashOk) ==
    LET built == [r EXCEPT !.loc.built =
                    <<submitRegistration(BufferFromHex(r.body.contentHash.s), claimHashBytes(r.body),
                          r.loc.rootCid, r.body.walletAddress.s, RegPda(r.body))>>]
        mode == SubmissionMode(r.ver, r.body.walletType, r.body.returnActionLink)
    IN  IF mode \in {"custodial-immediate", "client-deferred-immediate"}
        THEN [built EXCEPT !.pc = "submit"]
        ELSE IF ~blockhashOk THEN Throw(built, "getLatestBlockhash failed")
        ELSE [built EXCEPT !.pc = "insert", !.loc.issuedAt = now,
                           !.loc.expiresAt = now + ExpiryMs]

\* After a successful upload: the instruction is built and the handler
\* dispatches on the submission mode.
RegDispatch(r, blockhashOk) ==
    LET built == [r EXCEPT !.loc.built =
                    <<submitRegistration(BufferFromHex(r.body.contentHash.s), claimHashBytes(r.body),
                          r.loc.rootCid, r.body.walletAddress.s, RegPda(r.body))>>]
        mode == SubmissionMode(r.ver, r.body.walletType, r.body.returnActionLink)
    IN  IF mode = "custodial-immediate" THEN [built EXCEPT !.pc = "submit"]
        ELSE IF ~blockhashOk THEN Throw(built, "getLatestBlockhash failed")
        ELSE IF mode = "client-deferred-token"
        THEN [built EXCEPT !.pc = "insert", !.loc.issuedAt = now,
                           !.loc.expiresAt = now + ExpiryMs]
        ELSE RequiresClientSignature(built)

\* Statuses of a storage provider response whose `ok` is false; the handler
\* forwards the status it received.
UpstreamStatuses == {401, 502}

\* An upload step that does not check the response for a content identifier.
RegUpload_noCidCheck(s) ==
    /\ req[s].h = "register" /\ req[s].pc = "upload"
    /\ LET r == [req[s] EXCEPT !.loc.uploaded = TRUE]
       IN  \E o \in {"ok", "notOk", "noCid", "throws"}, blockhashOk \in BOOLEAN,
              status \in UpstreamStatuses :
           req' = [req EXCEPT ![s] =
               CASE o = "notOk" -> Respond(r, status, [error |-> TRUE, message |-> "QuickNode IPFS upload failed"])
                 [] o = "noCid" -> RegDispatch(r, blockhashOk)
                 [] o = "throws" -> Respond(r, 500, [error |-> TRUE, message |-> "Failed to upload data to QuickNode IPFS"])
                 [] OTHER -> RegDispatch([r EXCEPT !.loc.rootCid = CidOf(r.body)], blockhashOk)]
    /\ UNCHANGED <<relations, registrations, actions, wallets, now, sdk, db>>

\* The metadata upload, and on success everything up to the submission.
RegUpload(s) ==
    /\ req[s].h = "register" /\ req[s].pc = "upload"
    /\ LET r == [req[s] EXCEPT !.loc.uploaded = TRUE]
       IN  \E o \in {"ok", "notOk", "noCid", "throws"}, blockhashOk \in BOOLEAN,
              status \in UpstreamStatuses :
           req' = [req EXCEPT ![s] =
               CASE o = "notOk" -> Respond(r, status, [error |-> TRUE, message |-> "QuickNode IPFS upload failed"])
                 [] o = "noCid" -> Respond(r, 500, [error |-> TRUE, message |-> "Invalid response from QuickNode IPFS - missing CID"])
                 [] o = "throws" -> Respond(r, 500, [error |-> TRUE, message |-> "Failed to upload data to QuickNode IPFS"])
                 [] OTHER -> RegDispatch([r EXCEPT !.loc.rootCid = CidOf(r.body)], blockhashOk)]
    /\ UNCHANGED <<relations, registrations, actions, wallets, now, sdk, db>>

\* A response whose test of result.error is inverted.
RegSubmitResponse_inverted(r, result) ==
    IF result.kind = "throws" THEN Throw(r, "submitTransaction failed")
    ELSE IF result.error = ""
    THEN Respond(r, 500, [error |-> TRUE, message |-> result.error])
    ELSE Respond(r, 200,
            [error |-> FALSE,
             details |-> [status |-> "confirmed",
                          transactionSignature |-> result.signature,
                          contentRegistrationPDA |-> RegPda(r.body),
                          contentHash |-> r.body.contentHash.s,
                          ipfsCid |-> r.loc.rootCid]])

\* The response after submitTransaction in custodial mode.
RegSubmitResponse(r, result) ==
    IF result.kind = "throws" THEN Throw(r, "submitTransaction failed")
    ELSE IF r.ver = "current"
    THEN IF result.error # ""
         THEN Respond(r, 500, [error |-> TRUE, message |-> result.error])
         ELSE Respond(r, 200,
                [error |-> FALSE,
                 details |-> [status |-> "confirmed",
                              transactionSignature |-> result.signature,
                              contentRegistrationPDA |-> RegPda(r.body),
                              contentHash |-> r.body.contentHash.s,
                              ipfsCid |-> r.loc.rootCid]])
    ELSE Respond(r, 202,
            [error |-> FALSE,
             details |-> [status |-> "processing",
                          crossmintTransactionId |-> result.signature,
                          contentRegistrationPDA |-> RegPda(r.body),
                          contentHash |-> r.body.contentHash.s,
                          ipfsCid |-> r.loc.rootCid]])

\* Custodial mode: the transaction is submitted and the response sent.
RegSubmit(s) ==
    /\ req[s].h = "register" /\ req[s].pc = "submit"
    /\ LET transaction == [instructions |-> req[s].loc.built]
       IN  \E outcome \in SubmitOutcomes(transaction) :
           LET r == [req[s] EXCEPT !.loc.submitted = TRUE, !.loc.outcome = outcome]
               after == LedgerAfter(transaction, outcome)
           IN  /\ relations' = after.relations
               /\ registrations' = after.registrations
               /\ req' = [req EXCEPT ![s] =
                      RegSubmitResponse(r, submitTransaction(transaction, outcome))]
    /\ UNCHANGED <<actions, wallets, now, sdk, db>>

\* generateSecureToken: the tokens the random source can produce.
Tokens == {"t1", "t2"}

\* A row whose expiry is the time of issuance.
ActionRow_noLifetime(token, r) ==
    [token |-> token, unsigned_transaction |-> Base64(ClientTransaction(r)),
     creator_pubkey |-> r.body.walletAddress.s, content_hash |-> r.body.contentHash.s,
     content_title |-> r.body.contentTitle.s, expires_at |-> r.loc.issuedAt]

\* The row insertTransactionAction writes.
ActionRow(token, r) ==
    [token |-> token, unsigned_transaction |-> Base64(ClientTransaction(r)),
     creator_pubkey |-> r.body.walletAddress.s, content_hash |-> r.body.contentHash.s,
     content_title |-> r.body.contentTitle.s, expires_at |-> r.loc.expiresAt]

\* The record as the datastore holds it: the columns of the insert and the
\* status column, which starts as unused.
StoredRow(row) == row @@ [status |-> "unused"]

\* Token mode: the row is inserted and the action link returned, or the
\* insert fails and the request ends with 500.
RegInsert(s) ==
    /\ req[s].h = "register" /\ req[s].pc = "insert"
    /\ \E token \in Tokens, ok \in BOOLEAN :
         LET r == [req[s] EXCEPT !.loc.insertCalled = TRUE]
         IN
         IF ok /\ ~\E a \in actions : a.token = token
         THEN /\ actions' = actions \cup {StoredRow(ActionRow(token, r))}
              /\ req' = [req EXCEPT ![s] =
                    Respond([r EXCEPT !.loc.inserted = TRUE], 200,
                        [error |-> FALSE,
                         details |-> [status |-> "action-link-created",
                                      actionLink |-> <<"http://trustengine.org/tx-action/", token>>,
                                      token |-> token,
                                      expiresAt |-> toISOString(r.loc.expiresAt),
                                      contentHash |-> req[s].body.contentHash.s]])]
         ELSE /\ actions' = actions
              /\ req' = [req EXCEPT ![s] =
                    Respond(r, 500, [error |-> TRUE, message |-> "Failed to create action link"])]
    /\ UNCHANGED <<relations, registrations, wallets, now, sdk, db>>

\* ------------------------------------------------------------ action tokens

\* The clock advances by half the lifetime of a token.
TickMs == ExpiryMs \div 2

Tick ==
    /\ now < MaxTicks * TickMs
    /\ now' = now + TickMs
    /\ UNCHANGED <<relations, registrations, actions, wallets, req, sdk, db>>

RedeemLoc == [executedAt |-> 0, unusedAtArrival |-> FALSE]

\* A redeem call for a token arrives.
RedeemStart(s, token) ==
    /\ req[s].pc = "idle"
    /\ req' = [req EXCEPT ![s] =
            [Arrive(s, "redeem", "current", [token |-> token],
                    [RedeemLoc EXCEPT !.unusedAtArrival =
                        \E a \in actions : a.token = token /\ a.status = "unused"])
             EXCEPT !.pc = "redeem"]]
    /\ UNCHANGED <<relations, registrations, actions, wallets, now, sdk, db>>

\* A redeem that hands out the transaction of any record it finds.
RedeemExecute_unchecked(s) ==
    /\ req[s].h = "redeem" /\ req[s].pc = "redeem"
    /\ LET token == req[s].body.token
           r == [req[s] EXCEPT !.loc.executedAt = now]
           rows == {a \in actions : a.token = token}
       IN  IF rows # {}
           THEN /\ actions' = (actions \ rows) \cup {[a EXCEPT !.status = "consumed"] : a \in rows}
                /\ \E a \in rows :
                     req' = [req EXCEPT ![s] = Respond(r, 200,
                                [error |-> FALSE,
                                 details |-> [transaction |-> a.unsigned_transaction]])]
           ELSE /\ actions' = actions
                /\ req' = [req EXCEPT ![s] = Respond(r, 409,
                            [error |-> TRUE, details |-> [token |-> token]])]
    /\ UNCHANGED <<relations, registrations, wallets, now, sdk, db>>

\* A redeem that checks the status and not the expiry.
RedeemExecute_noExpiry(s) ==
    /\ req[s].h = "redeem" /\ req[s].pc = "redeem"
    /\ LET token == req[s].body.token
           r == [req[s] EXCEPT !.loc.executedAt = now]
           rows == {a \in actions : a.token = token /\ a.status = "unused"}
       IN  IF rows # {}
           THEN /\ actions' = (actions \ rows) \cup {[a EXCEPT !.status = "consumed"] : a \in rows}
                /\ \E a \in rows :
                     req' = [req EXCEPT ![s] = Respond(r, 200,
                                [error |-> FALSE,
                                 details |-> [transaction |-> a.unsigned_transaction]])]
           ELSE /\ actions' = actions
                /\ req' = [req EXCEPT ![s] = Respond(r, 409,
                            [error |-> TRUE, details |-> [token |-> token]])]
    /\ UNCHANGED <<relations, registrations, wallets, now, sdk, db>>

\* redeem(token): in one step of the datastore, the record is found unused
\* and not past its expiry and becomes consumed, or the call fails with
\* Conflict and the record is left as it was.
RedeemExecute(s) ==
    /\ req[s].h = "redeem" /\ req[s].pc = "redeem"
    /\ LET token == req[s].body.token
           r == [req[s] EXCEPT !.loc.executedAt = now]
           rows == {a \in actions : a.token = token /\ a.status = "unused" /\ now <= a.expires_at}
       IN  IF rows # {}
           THEN /\ actions' = (actions \ rows) \cup {[a EXCEPT !.status = "consumed"] : a \in rows}
                /\ \E a \in rows :
                     req' = [req EXCEPT ![s] = Respond(r, 200,
                                [error |-> FALSE,
                                 details |-> [transaction |-> a.unsigned_transaction]])]
           ELSE /\ actions' = actions
                /\ req' = [req EXCEPT ![s] = Respond(r, 409,
                            [error |-> TRUE, details |-> [token |-> token]])]
    /\ UNCHANGED <<relations, registrations, wallets, now, sdk, db>>

\* ----------------------------------------------------------------- /search

\* The validation block of /search: part_000 collects every error, the
\* handler of src/src/search.ts returns at the first.
SearchValidationErrors(ver, contentHash, walletAddress) ==
    IF ver = "current"
    THEN LET validation == validateFields([contentHash |-> contentHash])
         IN  (IF validation.missing # {} THEN {"missing_fields"} ELSE {})
             \cup (IF validation.invalidTypes # {} THEN {"invalid_types"} ELSE {})
             \cup (IF Truthy(contentHash) /\ ~Is64Hex(contentHash)
                   THEN {"invalid_format"} ELSE {})
             \cup (IF Truthy(walletAddress) /\ walletAddress.type # "string"
                   THEN {"invalid_types"} ELSE {})
             \cup (IF Truthy(walletAddress) /\ walletAddress.type = "string"
                      /\ ~ValidPublicKey(walletAddress)
                   THEN {"invalid_format"} ELSE {})
    ELSE IF ~Truthy(contentHash) THEN {"missing_fields"}
    ELSE IF Truthy(walletAddress) /\ ~ValidPublicKey(walletAddress) THEN {"invalid_format"}
    ELSE {}

\* The address search looks up for the userID of a registration's creator.
userKeyRelationPDA(creator) ==
    findProgramAddressSync(<<"user_key_relation", creator>>, user_key_relations_program)

searchMode(walletAddress) ==
    IF Truthy(walletAddress) THEN "content_hash_and_wallet" ELSE "content_hash_only"

\* The response when no registration matched.
SearchNotFound(r) ==
    Respond(r, IF r.ver = "current" THEN 409 ELSE 404,
        [error |-> TRUE,
         details |-> [searchedContentHash |-> BufferFromHex(r.body.contentHash.s),
                      searchMode |-> IF Truthy(r.body.walletAddress)
                                     THEN "Specific Registration" ELSE "All Registrations"]])

\* The failure of contentRegistration.all: part_000 has one catch, the
\* handler of src/src/search.ts an inner one with its own message.
SearchReadFailed(r) ==
    IF r.ver = "current" THEN Throw(r, "contentRegistration.all failed")
    ELSE Respond(r, 500, [error |-> TRUE,
            message |-> "An error occurred while searching for registrations.",
            details |-> [error |-> "contentRegistration.all failed"]])

\* The handler up to and including the read of the matching registrations.
SearchStart(s, ver, contentHash, walletAddress) ==
    /\ req[s].pc = "idle"
    /\ LET r == Arrive(s, "search", ver,
                       [contentHash |-> contentHash, walletAddress |-> walletAddress],
                       [infra |-> FALSE, matches |-> {}, lookupFailed |-> FALSE])
           errors == SearchValidationErrors(ver, contentHash, walletAddress)
       IN  IF errors # {}
           THEN req' = [req EXCEPT ![s] = Respond(r, 400,
                    [error |-> TRUE, details |-> [validationErrors |-> errors]])]
           ELSE IF contentHash.type # "string"
           THEN req' = [req EXCEPT ![s] = Throw(r, "TypeError")]
           ELSE IF Truthy(walletAddress)
           THEN IF HexByteLen(contentHash.s) > 32
                THEN req' = [req EXCEPT ![s] = Throw(r, "findProgramAddressSync failed")]
                ELSE \E f \in FetchOutcomes(registrations,
                            contentRegistrationPda(walletAddress.s, BufferFromHex(contentHash.s))) :
                     req' = [req EXCEPT ![s] =
                        IF f.kind = "found"
                        THEN [r EXCEPT !.pc = "relations", !.loc.matches = {f.account}]
                        ELSE SearchNotFound([r EXCEPT !.loc.infra = (f.kind = "failure")])]
           ELSE \E ok \in BOOLEAN :
                LET matching == {a \in registrations : a.contentHash = BufferFromHex(contentHash.s)}
                IN  req' = [req EXCEPT ![s] =
                        IF ~ok THEN SearchReadFailed([r EXCEPT !.loc.infra = TRUE])
                        ELSE IF matching = {} THEN SearchNotFound(r)
                        ELSE [r EXCEPT !.pc = "relations", !.loc.matches = matching]]
    /\ UNCHANGED <<relations, registrations, actions, wallets, now, sdk, db>>

\* An entry that takes the creator from the request instead of the account.
SearchResult_fromRequest(r, account, userID) ==
    [contentHash |-> BufferFromHex(r.body.contentHash.s),
     pdaAddress |-> account.address,
     ipfsCid |-> account.ipfsCid,
     registeredBy |-> IF Truthy(r.body.walletAddress) THEN r.body.walletAddress.s ELSE "null",
     userID |-> userID,
     onChainData |-> account]

\* One entry of the registrations list of the 200 response.
SearchResult(r, account, userID) ==
    [contentHash |-> BufferFromHex(r.body.contentHash.s),
     pdaAddress |-> account.address,
     ipfsCid |-> account.ipfsCid,
     registeredBy |-> account.creator,
     userID |-> userID,
     onChainData |-> account]

\* A handler that keeps the result of a search in the datastore.
SearchRelations_storesResult(s) ==
    /\ req[s].h = "search" /\ req[s].pc = "relations"
    /\ LET r == req[s]
       IN  /\ req' = [req EXCEPT ![s] = Respond(r, 200,
                    [error |-> FALSE,
                     searchMode |-> searchMode(r.body.walletAddress),
                     totalResults |-> Cardinality(r.loc.matches),
                     registrations |-> {SearchResult(r, a, "null") : a \in r.loc.matches}])]
           /\ actions' = actions \cup {[token |-> "search", matches |-> r.loc.matches]}
    /\ UNCHANGED <<relations, registrations, wallets, now, sdk, db>>

\* The userID of each match is looked up (null when the fetch throws, which
\* loc.lookupFailed records when the cause was not an absent account), and
\* the 200 response sent.
SearchRelations(s) ==
    /\ req[s].h = "search" /\ req[s].pc = "relations"
    /\ LET r == req[s]
       IN  \E readOk \in [r.loc.matches -> BOOLEAN] :
           LET userIDOf(a) ==
                   IF readOk[a] /\ \E u \in relations : u.address = userKeyRelationPDA(a.creator)
                   THEN (CHOOSE u \in relations : u.address = userKeyRelationPDA(a.creator)).userId
                   ELSE "null"
           IN  req' = [req EXCEPT ![s] =
                    Respond([r EXCEPT !.loc.lookupFailed = \E a \in r.loc.matches : ~readOk[a]],
                        200,
                        [error |-> FALSE,
                         searchMode |-> searchMode(r.body.walletAddress),
                         totalResults |-> Cardinality(r.loc.matches),
                         registrations |-> {SearchResult(r, a, userIDOf(a)) : a \in r.loc.matches}])]
    /\ UNCHANGED <<relations, registrations, actions, wallets, now, sdk, db>>

\* ------------------------------------------------------- /validators/data

\* The validator accounts of the staking program: this layer has no handler
\* that writes them.
ValidatorAccounts ==
    {[address |-> findProgramAddressSync(<<"validator", "w1">>, staking_program),
      validator |-> "w1", stakedAmount |-> 5, reputationScore |-> 7,
      totalVotes |-> 3, honestVotes |-> 2, dishonestVotes |-> 1, lastActiveTime |-> 9],
     [address |-> findProgramAddressSync(<<"validator", "w2">>, staking_program),
      validator |-> "w2", stakedAmount |-> 1, reputationScore |-> 0,
      totalVotes |-> 0, honestVotes |-> 0, dishonestVotes |-> 0, lastActiveTime |-> 0]}

\* The validation block of /validators/data.
ValidatorValidationErrors(walletAddress) ==
    LET validation == validateFields([walletAddress |-> walletAddress])
    IN  (IF validation.missing # {} THEN {"missing_fields"} ELSE {})
        \cup (IF validation.invalidTypes # {} THEN {"invalid_types"} ELSE {})
        \cup (IF Truthy(walletAddress) /\ ~ValidPublicKey(walletAddress)
              THEN {"invalid_format"} ELSE {})

\* parseFloat(((honestVotes / totalVotes) * 100).toFixed(2)) || 0, in
\* hundredths of a percent; 0 when there are no votes ("N/A").
accuracyPercentage(honestVotes, totalVotes) ==
    IF totalVotes > 0 THEN (honestVotes * 20000 + totalVotes) \div (2 * totalVotes) ELSE 0

\* The whole handler: validation, derivation, one fetch, the response.
ValidatorData(s, walletAddress) ==
    /\ req[s].pc = "idle"
    /\ LET r == Arrive(s, "validators", "current", [walletAddress |-> walletAddress],
                       [infra |-> FALSE])
           errors == ValidatorValidationErrors(walletAddress)
           validatorPDA == findProgramAddressSync(<<"validator", walletAddress.s>>, staking_program)
       IN  IF errors # {}
           THEN req' = [req EXCEPT ![s] = Respond(r, 400,
                    [error |-> TRUE, details |-> [validationErrors |-> errors]])]
           ELSE \E f \in FetchOutcomes(ValidatorAccounts, validatorPDA) :
                req' = [req EXCEPT ![s] =
                    IF f.kind = "found"
                    THEN Respond(r, 200,
                            [error |-> FALSE,
                             details |-> [validatorAddress |-> f.account.validator,
                                          validatorPDA |-> validatorPDA,
                                          stakedAmount |-> f.account.stakedAmount,
                                          reputationScore |-> f.account.reputationScore,
                                          totalVotes |-> f.account.totalVotes,
                                          honestVotes |-> f.account.honestVotes,
                                          dishonestVotes |-> f.account.dishonestVotes,
                                          accuracyPercentage |->
                                              accuracyPercentage(f.account.honestVotes,
                                                                 f.account.totalVotes),
                                          lastActiveTime |-> f.account.lastActiveTime]])
                    ELSE Respond([r EXCEPT !.loc.infra = (f.kind = "failure")], 409,
                            [error |-> TRUE,
                             details |-> [walletAddress |-> walletAddress.s,
                                          expectedPDA |-> validatorPDA]])]
    /\ UNCHANGED <<relations, registrations, actions, wallets, now, sdk, db>>

\* ----------------------------------------------------------------- /health

\* The whole handler: 200 with the time of the call.
Health(s, ver) ==
    /\ req[s].pc = "idle"
    /\ LET r == Arrive(s, "health", ver, [none |-> TRUE], [none |-> TRUE])
       IN  req' = [req EXCEPT ![s] =
              IF ver = "current"
              THEN Respond(r, 200, [error |-> FALSE,
                      details |-> [status |-> "Operational", timestamp |-> toISOString(now)]])
              ELSE Respond(r, 200, [error |-> FALSE, timestamp |-> toISOString(now)])]
    /\ UNCHANGED <<relations, registrations, actions, wallets, now, sdk, db>>

\* ------------------------------------------------------- datastore pool

\* Pools are numbered in the order new Pool(...) creates them; 0 is null.
MaxPools == 3

\* pool.end() calls followed per pool.
MaxEnds == 3

\* The callers of the datastore module: each runs one call at a time.
DbCallers == {1, 2}

\* A caller between calls.
DbIdle == [op |-> "none", pc |-> "idle", held |-> 0, result |-> "none", ending |-> FALSE]

\* `let pool: Pool | null = null`, no pool created, no call made. `life` is
\* the last lifecycle call that has returned.
DbInit ==
    [pool |-> 0, made |-> 0, ends |-> [p \in 1..MaxPools |-> 0], life |-> "none",
     call |-> [c \in DbCallers |-> DbIdle]]

\* The shutdown of pool p has begun: end() has been called on it.
Ending(p) == p # 0 /\ db.ends[p] > 0

\* A call that returned pool p (0 when it threw 'Database not initialized').
DbReturned(op, p) ==
    [op |-> op, pc |-> "idle", held |-> p,
     result |-> IF p = 0 THEN "notInitialized" ELSE "returned", ending |-> Ending(p)]

\* initializeDatabase: creates the pool when there is none, returns it.
initializeDatabase(c) ==
    /\ db.call[c].pc = "idle"
    /\ IF db.pool = 0
       THEN /\ db.made < MaxPools
            /\ db' = [db EXCEPT !.pool = db.made + 1, !.made = @ + 1, !.life = "initialized",
                                !.call[c] = [DbReturned("initializeDatabase", db.made + 1)
                                                EXCEPT !.ending = FALSE]]
       ELSE db' = [db EXCEPT !.life = "initialized",
                             !.call[c] = DbReturned("initializeDatabase", db.pool)]
    /\ UNCHANGED <<relations, registrations, actions, wallets, now, req, sdk>>

\* getDatabase: the pool, or the error when there is none.
getDatabase(c) ==
    /\ db.call[c].pc = "idle"
    /\ db' = [db EXCEPT !.call[c] = DbReturned("getDatabase", db.pool)]
    /\ UNCHANGED <<relations, registrations, actions, wallets, now, req, sdk>>

\* closeDatabase up to its await: with a pool, pool.end() is called.
closeDatabase(c) ==
    /\ db.call[c].pc = "idle"
    /\ IF db.pool = 0
       THEN db' = [db EXCEPT !.life = "closed",
                             !.call[c] = [DbIdle EXCEPT !.op = "closeDatabase",
                                                        !.result = "returned"]]
       ELSE /\ db.ends[db.pool] < MaxEnds
            /\ db' = [db EXCEPT !.ends[db.pool] = @ + 1,
                                !.call[c] = [DbIdle EXCEPT !.op = "closeDatabase", !.pc = "end",
                                                           !.held = db.pool,
                                                           !.ending = Ending(db.pool)]]
    /\ UNCHANGED <<relations, registrations, actions, wallets, now, req, sdk>>

\* A closeDatabase that forgets the assignment after the await.
closeDatabaseResume_keepsPool(c) ==
    /\ db.call[c].pc = "end"
    /\ db' = [db EXCEPT !.life = "closed",
                        !.call[c] = [@ EXCEPT !.pc = "idle", !.result = "returned"]]
    /\ UNCHANGED <<relations, registrations, actions, wallets, now, req, sdk>>

\* closeDatabase after its await: pool.end() resolved and `pool = null`
\* runs, or it rejected and the call throws. end() rejects only on a pool
\* that was ended before.
closeDatabaseResume(c) ==
    /\ db.call[c].pc = "end"
    /\ \E rejected \in (IF db.call[c].ending THEN BOOLEAN ELSE {FALSE}) :
         IF rejected
         THEN db' = [db EXCEPT !.call[c] = [@ EXCEPT !.pc = "idle", !.result = "endRejected"]]
         ELSE db' = [db EXCEPT !.pool = 0, !.life = "closed",
                               !.call[c] = [@ EXCEPT !.pc = "idle", !.result = "returned"]]
    /\ UNCHANGED <<relations, registrations, actions, wallets, now, req, sdk>>

\* The data of an insertTransactionAction call.
DbRows ==
    {[token |-> t, unsigned_transaction |-> Base64([instructions |-> <<>>]),
      creator_pubkey |-> "w1", content_hash |-> "h1", content_title |-> "title",
      expires_at |-> ExpiryMs] : t \in Tokens}

\* insertTransactionAction up to its await: getDatabase() throws or gives
\* the pool on which the query is started.
insertTransactionAction(c) ==
    /\ db.call[c].pc = "idle"
    /\ db' = [db EXCEPT !.call[c] =
                [DbReturned("insertTransactionAction", db.pool)
                    EXCEPT !.pc = IF db.pool = 0 THEN "idle" ELSE "query",
                           !.result = IF db.pool = 0 THEN "notInitialized" ELSE "none"]]
    /\ UNCHANGED <<relations, registrations, actions, wallets, now, req, sdk>>

\* insertTransactionAction after its await: the row is stored, or the query
\* was rejected (always so for a token that is stored already).
insertTransactionActionResume(c) ==
    /\ db.call[c].pc = "query"
    /\ \E data \in DbRows, ok \in BOOLEAN :
         IF ok /\ ~\E a \in actions : a.token = data.token
         THEN /\ actions' = actions \cup {StoredRow(data)}
              /\ db' = [db EXCEPT !.call[c] = [@ EXCEPT !.pc = "idle", !.result = "returned"]]
         ELSE /\ actions' = actions
              /\ db' = [db EXCEPT !.call[c] = [@ EXCEPT !.pc = "idle", !.result = "queryRejected"]]
    /\ UNCHANGED <<relations, registrations, wallets, now, req, sdk>>

\* -------------------------------------------------------- SDK registerFile

\* No registerFile call is running.
SdkIdle ==
    [pc |-> "idle", walletAddress |-> "", walletType |-> "", signer |-> FALSE,
     secret |-> FALSE, response |-> NoResponse, signed |-> FALSE, body |-> Undefined,
     txCalls |-> 0, result |-> [kind |-> "none"]]

\* The payload registerFile posts to /register: the SDK always sends a
\* claimHash, the hash of content and secret or the hex of 32 zero bytes.
SdkPayload(call) ==
    [contentTitle |-> Str("title"), walletAddress |-> Str(call.walletAddress),
     walletType |-> Str(call.walletType), metadata |-> Undefined,
     claimHash |-> Str(IF call.secret THEN "k1" ELSE "z64"),
     contentHash |-> Str("h1"), fileMetadata |-> [type |-> "object"],
     returnActionLink |-> Undefined]

\* _request: response.ok is a status from 200 to 299.
ResponseOk(res) == res.status >= 200 /\ res.status <= 299

\* _request throws for a response that is not ok, with its status.
SdkThrows(call, reason) ==
    [call EXCEPT !.pc = "threw", !.result = [kind |-> "threw", reason |-> reason]]

SdkReturns(call, res) ==
    [call EXCEPT !.pc = "returned", !.result = [kind |-> "returned", value |-> res]]

\* registerFile up to the fetch of /register: the file is validated first.
SdkRegisterFile(walletAddress, walletType, signer, secret, fileValid) ==
    /\ sdk.pc = "idle"
    /\ LET call == [SdkIdle EXCEPT !.walletAddress = walletAddress, !.walletType = walletType,
                                   !.signer = signer, !.secret = secret]
       IN  sdk' = IF fileValid THEN [call EXCEPT !.pc = "register"]
                  ELSE SdkThrows(call, "validateFile")
    /\ UNCHANGED <<relations, registrations, actions, wallets, now, req, db>>

\* The fetch of _request rejects: the SDK throws 'SDK request failed'.
SdkRequestFails ==
    /\ sdk.pc \in {"register", "submit"}
    /\ sdk' = SdkThrows(sdk, "SDK request failed")
    /\ UNCHANGED <<relations, registrations, actions, wallets, now, req, db>>

\* response.details.status of a register response.
DetailsStatus(res) ==
    IF "details" \in DOMAIN res /\ "status" \in DOMAIN res.details
    THEN res.details.status ELSE "undefined"

\* An SDK that posts the transaction unsigned when it has no signTransaction.
SdkAfterRegister_noSignerCheck(call, res) ==
    IF ~ResponseOk(res) THEN SdkThrows([call EXCEPT !.response = res], "API error")
    ELSE IF DetailsStatus(res) = "requires-client-signature" /\ call.walletType = "standard"
    THEN IF ~call.signer
         THEN [call EXCEPT !.response = res, !.pc = "submit", !.txCalls = @ + 1,
                           !.body = res.details.transaction]
         ELSE [call EXCEPT !.response = res, !.pc = "sign"]
    ELSE SdkReturns([call EXCEPT !.response = res], res)

\* registerFile after the register response arrived.
SdkAfterRegister(call, res) ==
    IF ~ResponseOk(res) THEN SdkThrows([call EXCEPT !.response = res], "API error")
    ELSE IF DetailsStatus(res) = "requires-client-signature" /\ call.walletType = "standard"
    THEN IF ~call.signer
         THEN SdkThrows([call EXCEPT !.response = res], "no signTransaction function provided")
         ELSE [call EXCEPT !.response = res, !.pc = "sign"]
    ELSE SdkReturns([call EXCEPT !.response = res], res)

\* The response of /register reaches the SDK.
SdkRegisterResponse(s) ==
    /\ sdk.pc = "register"
    /\ req[s].h = "register" /\ req[s].pc = "done"
    /\ sdk' = SdkAfterRegister(sdk, req[s].res)
    /\ UNCHANGED <<relations, registrations, actions, wallets, now, req, db>>

\* signTransaction returns the signed transaction, which is serialized to
\* base64 and posted to /transactions by submitTransaction, or it throws.
SdkSign ==
    /\ sdk.pc = "sign"
    /\ \E returns \in BOOLEAN :
         sdk' = IF returns
                THEN [sdk EXCEPT !.pc = "submit", !.signed = TRUE, !.txCalls = @ + 1,
                                 !.body = Base64(TransactionFrom(
                                              sdk.response.details.transaction))]
                ELSE SdkThrows(sdk, "signTransaction")
    /\ UNCHANGED <<relations, registrations, actions, wallets, now, req, db>>

\* The response of /transactions reaches the SDK and registerFile ends.
SdkTransactionsResponse(s) ==
    /\ sdk.pc = "submit"
    /\ req[s].h = "transactions" /\ req[s].pc = "done"
    /\ sdk' = IF ResponseOk(req[s].res) THEN SdkReturns(sdk, req[s].res)
              ELSE SdkThrows(sdk, "API error")
    /\ UNCHANGED <<relations, registrations, actions, wallets, now, req, db>>

\* The caller has the outcome; the SDK object serves the next call.
SdkEnd ==
    /\ sdk.pc \in {"returned", "threw"}
    /\ sdk' = SdkIdle
    /\ UNCHANGED <<relations, registrations, actions, wallets, now, req, db>>

\* ------------------------------------------------------------ inputs

Wallets == {"w1", "w2"}
Hashes == {"h1"}

\* Instructions a client can put into a transaction it sends to /transactions.
ClientInstructions ==
    {Noop(p) : p \in {SystemProgram, ComputeBudgetProgram,
                      ForeignProgram, OtherForeignProgram}}
    \cup {submitRegistration(h, "zero", "cid1", "w1", contentRegistrationPda("w1", h)) : h \in Hashes}

TxBodies ==
    {Undefined, Num, Str(""), Str("garbage")}
    \cup {Base64([instructions |-> q]) : q \in SeqsUpTo(ClientInstructions, MaxInstr)}

\* ------------------------------------------------------------ specifications

Init ==
    /\ relations = {}
    /\ registrations = {}
    /\ actions = {}
    /\ wallets = {}
    /\ now = 0
    /\ req = [s \in Slots |-> Idle]
    /\ sdk = SdkIdle
    /\ db = DbInit

NextTx ==
    \E s \in Slots :
        \/ \E v \in TxBodies : TxStart(s, v)
        \/ TxConfirm(s)
        \/ Release(s)

SpecTx == Init /\ [][NextTx]_vars

\* A /register body with the fields the checks below vary.
RegBody(walletAddress, walletType, contentHash, returnActionLink) ==
    [contentTitle |-> Str("title"), walletAddress |-> walletAddress, metadata |-> Undefined,
     walletType |-> walletType, claimHash |-> Undefined, contentHash |-> contentHash,
     fileMetadata |-> [type |-> "object"], returnActionLink |-> returnActionLink]

RegBodies ==
    {RegBody(w, t, Str("h1"), a) :
        w \in {Str("w1"), Str("w2")},
        t \in {Str("standard"), Str("crossmint")},
        a \in {Undefined, Bool(TRUE)}}
    \cup {RegBody(Str("w2"), Str("ledger"), Str("h1"), Undefined),
          RegBody(Str("w1"), Str("standard"), Str("h1"), Bool(FALSE))}

\* The transactions a client holds after /register in a standard-wallet mode.
RegTxBodies ==
    {Base64([instructions |-> <<submitRegistration("h1", "zero", "cid1", w, contentRegistrationPda(w, "h1")),
                                Noop(ComputeBudgetProgram)>>]) : w \in {"w1"}}

NextReg ==
    \E s \in Slots :
        \/ \E ver \in {"current", "legacy"}, b \in RegBodies : RegStart(s, ver, b)
        \/ RegCheckLink(s)
        \/ RegUpload(s)
        \/ RegSubmit(s)
        \/ RegInsert(s)
        \/ LinkStart(s, "current", Str("u1"), Str("w1"))
        \/ LinkFetch2(s)
        \/ LinkSubmit(s)
        \/ \E v \in RegTxBodies : TxStart(s, v)
        \/ TxConfirm(s)
        \/ Release(s)

SpecReg == Init /\ [][NextReg]_vars

\* Register requests of a linked standard wallet that ask for an action link.
TokenBodies == {RegBody(Str("w1"), Str("standard"), Str("h1"), Bool(TRUE))}

\* The state after wallet w1 was linked to u1 and the link request released.
InitLinked ==
    /\ relations = InstrApply(storeUserKeyRelation("u1", "w1", userIdToWalletRelationPDA("u1"),
                                  walletToUserIdRelationPDA("w1")),
                              [relations |-> {}, registrations |-> {}]).relations
    /\ registrations = {}
    /\ actions = {}
    /\ wallets = {}
    /\ now = 0
    /\ req = [s \in Slots |-> Idle]
    /\ sdk = SdkIdle
    /\ db = DbInit

NextToken ==
    \/ Tick
    \/ \E s \in Slots :
        \/ \E b \in TokenBodies : RegStart(s, "current", b)
        \/ RegCheckLink(s)
        \/ RegUpload(s)
        \/ RegInsert(s)
        \/ \E token \in Tokens : RedeemStart(s, token)
        \/ RedeemExecute(s)
        \/ Release(s)

SpecToken == InitLinked /\ [][NextToken]_vars

\* Register bodies with missing and malformed fields.
ValBodies ==
    {[contentTitle |-> t, walletAddress |-> w, metadata |-> Undefined, walletType |-> wt,
      claimHash |-> c, contentHash |-> h, fileMetadata |-> [type |-> "object"],
      returnActionLink |-> Undefined] :
        t \in {Str("title"), Undefined},
        w \in {Str("w1"), Str("bad"), Undefined},
        wt \in {Str("standard"), Str("ledger")},
        c \in {Undefined, Str("zz"), Num},
        h \in {Str("h1"), Str("ab"), Str("h66")}}

NextVal ==
    \E s \in Slots :
        \/ \E ver \in {"current", "legacy"}, b \in ValBodies : RegStart(s, ver, b)
        \/ RegCheckLink(s)
        \/ Release(s)

SpecVal == Init /\ [][NextVal]_vars

Versions == {"current", "legacy"}
UserIdInputs == {Undefined, Str("u1"), Str("u2")}
WalletInputs == {Str("w1"), Str("c1"), Str("bad")}
FindUserIdInputs == {Undefined, Str(""), Str("u1"), Str("u2")}
FindWalletInputs == {Undefined, Str("w1"), Str("c1"), Str("bad")}

NextLink ==
    \E s \in Slots :
        \/ \E ver \in Versions, u \in UserIdInputs, w \in WalletInputs : LinkStart(s, ver, u, w)
        \/ LinkFetch2(s)
        \/ LinkSubmit(s)
        \/ \E u \in UserIdInputs : CreateStart(s, u)
        \/ CreateWallet(s)
        \/ CreateSubmit(s)
        \/ \E ver \in Versions, u \in FindUserIdInputs, w \in FindWalletInputs : Find(s, ver, u, w)
        \/ Release(s)

SpecLink == Init /\ [][NextLink]_vars

\* Link requests with absent, empty, mistyped, long and malformed fields.
LinkValUserIds == {Undefined, Str(""), Num, Str("u1"), Str("u33"), Str("u200"), Str("u201")}
LinkValWallets == {Undefined, Str("w1"), Str("bad")}

NextLinkVal ==
    \E s \in Slots :
        \/ \E ver \in Versions, u \in LinkValUserIds, w \in LinkValWallets : LinkStart(s, ver, u, w)
        \/ LinkFetch2(s)
        \/ LinkSubmit(s)
        \/ Release(s)

SpecLinkVal == Init /\ [][NextLinkVal]_vars

\* Custodial register requests of the linked wallet w1 and of the unlinked
\* wallet w2, and a client that writes w2's registration through
\* /transactions.
OrderBodies ==
    {RegBody(Str(w), Str("crossmint"), Str("h1"), Undefined) : w \in {"w1", "w2"}}

OrderTxBodies ==
    {Base64([instructions |-> <<submitRegistration("h1", "zero", "cid1", "w2",
                                    contentRegistrationPda("w2", "h1"))>>])}

NextOrder ==
    \E s \in Slots :
        \/ \E ver \in Versions, b \in OrderBodies : RegStart(s, ver, b)
        \/ RegCheckLink(s)
        \/ RegUpload(s)
        \/ RegSubmit(s)
        \/ \E v \in OrderTxBodies : TxStart(s, v)
        \/ TxConfirm(s)
        \/ Release(s)

SpecOrder == InitLinked /\ [][NextOrder]_vars

\* The state after wallet w1 was linked to u1 and (w1, h1) was registered in
\* custodial mode, both requests released.
InitRegistered ==
    /\ relations = InstrApply(storeUserKeyRelation("u1", "w1", userIdToWalletRelationPDA("u1"),
                                  walletToUserIdRelationPDA("w1")),
                              [relations |-> {}, registrations |-> {}]).relations
    /\ registrations = InstrApply(submitRegistration("h1", "zero", "cid1", "w1",
                                      contentRegistrationPda("w1", "h1")),
                                  [relations |-> {}, registrations |-> {}]).registrations
    /\ actions = {}
    /\ wallets = {}
    /\ now = 0
    /\ req = [s \in Slots |-> Idle]
    /\ sdk = SdkIdle
    /\ db = DbInit

\* Inputs of the handlers that read: absent, mistyped, malformed, unknown
\* and known values.
SearchHashInputs == {Undefined, Num, Str("h1"), Str("h2"), Str("ab"), Str("h66")}
SearchWalletInputs == {Undefined, Str("w1"), Str("w2"), Str("bad")}
ValidatorInputs == {Undefined, Num, Str("w1"), Str("w2"), Str("c1"), Str("bad")}

\* The reading handlers, beside a link request that writes.
NextRead ==
    \E s \in Slots :
        \/ \E ver \in Versions, u \in FindUserIdInputs, w \in FindWalletInputs : Find(s, ver, u, w)
        \/ \E ver \in Versions, h \in SearchHashInputs, w \in SearchWalletInputs :
              SearchStart(s, ver, h, w)
        \/ SearchRelations(s)
        \/ \E w \in ValidatorInputs : ValidatorData(s, w)
        \/ \E ver \in Versions : Health(s, ver)
        \/ LinkStart(s, "current", Str("u2"), Str("w2"))
        \/ LinkFetch2(s)
        \/ LinkSubmit(s)
        \/ Release(s)

SpecRead == InitRegistered /\ [][NextRead]_vars

\* Every handler that writes to the ledger, beside find and search.
KeepBodies == {RegBody(Str("w1"), Str("crossmint"), Str("h1"), Undefined)}

NextKeep ==
    \E s \in Slots :
        \/ \E u \in {Str("u1"), Str("u2")} : LinkStart(s, "current", u, Str("w1"))
        \/ LinkFetch2(s)
        \/ LinkSubmit(s)
        \/ \E b \in KeepBodies : RegStart(s, "current", b)
        \/ RegCheckLink(s)
        \/ RegUpload(s)
        \/ RegSubmit(s)
        \/ \E v \in RegTxBodies : TxStart(s, v)
        \/ TxConfirm(s)
        \/ CreateStart(s, Str("u2"))
        \/ CreateWallet(s)
        \/ CreateSubmit(s)
        \/ Find(s, "current", Undefined, Str("w1"))
        \/ Find(s, "current", Str("u1"), Undefined)
        \/ \E w \in {Undefined, Str("w1")} : SearchStart(s, "current", Str("h1"), w)
        \/ SearchRelations(s)
        \/ Release(s)

SpecKeep == Init /\ [][NextKeep]_vars

\* Every handler with a validation block, on well-formed and on rejected
\* input, with w1 linked: the register bodies vary the metadata, which the
\* handler of part_003 1-278 validates after its two ledger reads.
EffectBodies ==
    {[RegBody(Str("w1"), wt, Str("h1"), Undefined) EXCEPT !.metadata = m] :
        wt \in {Str("crossmint"), Str("ledger")},
        m \in {Undefined, Num, Str("m")}}

NextEffect ==
    \E s \in Slots :
        \/ \E ver \in Versions, b \in EffectBodies : RegStart(s, ver, b)
        \/ RegCheckLink(s)
        \/ RegUpload(s)
        \/ RegSubmit(s)
        \/ \E u \in {Undefined, Str("u2")}, w \in {Str("w2"), Num} :
              LinkStart(s, "current", u, w)
        \/ LinkFetch2(s)
        \/ LinkSubmit(s)
        \/ \E u \in {Undefined, Num, Str("u2")} : CreateStart(s, u)
        \/ CreateWallet(s)
        \/ CreateSubmit(s)
        \/ \E w \in ValidatorInputs : ValidatorData(s, w)
        \/ \E v \in {Undefined, Num} \cup RegTxBodies : TxStart(s, v)
        \/ TxConfirm(s)
        \/ Release(s)

SpecEffect == InitLinked /\ [][NextEffect]_vars

\* The handlers of /register (part_003 280-589), /transactions and
\* /link-wallet, each run to its response. A request that waits on an
\* external call goes on when the call returns or throws: the event loop
\* runs the continuation of every settled promise, which the weak fairness
\* of Continue states.
LiveBodies ==
    {RegBody(Str("w1"), Str("crossmint"), Str("h1"), Undefined),
     RegBody(Str("w1"), Str("standard"), Str("h1"), Bool(TRUE)),
     RegBody(Undefined, Str("standard"), Str("h1"), Undefined)}

Continue(s) ==
    \/ RegCheckLink(s)
    \/ RegUpload(s)
    \/ RegSubmit(s)
    \/ RegInsert(s)
    \/ TxConfirm(s)
    \/ LinkFetch2(s)
    \/ LinkSubmit(s)

NextLive ==
    \E s \in Slots :
        \/ \E b \in LiveBodies : RegStart(s, "current", b)
        \/ \E v \in {Str("garbage")} \cup RegTxBodies : TxStart(s, v)
        \/ \E u \in {Undefined, Str("u2")} : LinkStart(s, "current", u, Str("w2"))
        \/ Continue(s)
        \/ Release(s)

SpecLive == InitLinked /\ [][NextLive]_vars /\ \A s \in Slots : WF_vars(Continue(s))

\* Register requests of the linked wallet w1 for two documents, with and
\* without a claim hash, in both wallet types, up to the built instruction
\* and its submission.
InstrBodies ==
    {[RegBody(Str("w1"), wt, Str(h), Undefined) EXCEPT !.claimHash = c] :
        wt \in {Str("standard"), Str("crossmint")},
        h \in {"h1", "h2"},
        c \in {Undefined, Str("k1")}}

NextInstr ==
    \E s \in Slots :
        \/ \E b \in InstrBodies : RegStart(s, "current", b)
        \/ RegCheckLink(s)
        \/ RegUpload(s)
        \/ RegSubmit(s)
        \/ Release(s)

SpecInstr == InitLinked /\ [][NextInstr]_vars

\* The datastore module called by one caller that awaits each call.
NextPool ==
    \/ initializeDatabase(1)
    \/ getDatabase(1)
    \/ closeDatabase(1)
    \/ closeDatabaseResume(1)
    \/ insertTransactionAction(1)
    \/ insertTransactionActionResume(1)

SpecPool == Init /\ [][NextPool]_vars

\* The datastore module called by concurrent callers.
NextPoolRace ==
    \E c \in DbCallers :
        \/ initializeDatabase(c)
        \/ getDatabase(c)
        \/ closeDatabase(c)
        \/ closeDatabaseResume(c)
        \/ insertTransactionAction(c)
        \/ insertTransactionActionResume(c)

SpecPoolRace == Init /\ [][NextPoolRace]_vars

\* One SDK client against the server with w1 linked: the server receives
\* what the SDK sent, one request per fetch, and the slots are cleared
\* between two registerFile calls.
NextSdk ==
    \/ \E w \in {"w1", "w2"}, wt \in {"standard", "crossmint"}, signer, secret, valid \in BOOLEAN :
          /\ \A t \in Slots : req[t].pc = "idle"
          /\ SdkRegisterFile(w, wt, signer, secret, valid)
    \/ SdkRequestFails
    \/ SdkSign
    \/ SdkEnd
    \/ \E s \in Slots :
          \/ /\ sdk.pc = "register" /\ \A t \in Slots : req[t].h # "register"
             /\ RegStart(s, "current", SdkPayload(sdk))
          \/ RegCheckLink(s)
          \/ RegUpload(s)
          \/ RegSubmit(s)
          \/ SdkRegisterResponse(s)
          \/ /\ sdk.pc = "submit" /\ \A t \in Slots : req[t].h # "transactions"
             /\ TxStart(s, sdk.body)
          \/ TxConfirm(s)
          \/ SdkTransactionsResponse(s)
          \/ sdk.pc = "idle" /\ Release(s)

SpecSdk == InitLinked /\ [][NextSdk]_vars

\* ------------------------------------------------------------------ claims

\* The allow-list as the specification words it.
AllowListed(programId) ==
    programId \in {zkp_program, user_key_relations_program, staking_program,
                   SystemProgram, ComputeBudgetProgram}

\* A /transactions request whose transaction deserialized.
TxRequest(s) == req[s].h = "transactions" /\ Deserializable(req[s].body.transaction)
TxInstructions(s) == TransactionFrom(req[s].body.transaction).instructions
HasForeignInstruction(s) ==
    \E k \in 1..Len(TxInstructions(s)) : ~AllowListed(TxInstructions(s)[k].programId)

\* C1: a /transactions request whose transaction holds an instruction of a
\* program outside the allow-list is never signed by the shared signer, never
\* reaches sendRawTransaction, and ends with 403.
C1_UnauthorizedNeverSigned ==
    \A s \in Slots :
        (TxRequest(s) /\ HasForeignInstruction(s)) =>
            /\ ~req[s].loc.signed
            /\ ~req[s].loc.sendCalled
            /\ req[s].pc = "done"
            /\ req[s].res.status = 403

\* C1 witness: a rejected transaction whose first instruction is allowed and
\* whose second is not.
C1_Witness ==
    \E s \in Slots :
        /\ TxRequest(s) /\ Len(TxInstructions(s)) = 2
        /\ AllowListed(TxInstructions(s)[1].programId)
        /\ ~AllowListed(TxInstructions(s)[2].programId)
        /\ req[s].res.status = 403

C3_AtMostOneRelation ==
    \A a, b \in relations :
        /\ a.userId = b.userId => a.userPublicKey = b.userPublicKey
        /\ a.userPublicKey = b.userPublicKey => a.userId = b.userId

\* C3 witness: two requests passed both pre-checks for the same wallet, the
\* ledger executed one submission and rejected the other.
C3_Witness ==
    \E s, t \in Slots :
        /\ req[s].h \in {"link", "create"} /\ req[s].res.status \in {200, 201}
        /\ req[t].h = "link" /\ req[t].ver = "current" /\ req[t].loc.submitted
        /\ ~req[t].loc.infra /\ req[t].res.status = 500
        /\ req[t].res.message = "ledger rejected the transaction"
        /\ relations # {}

\* C7: after a /link-wallet request for (id, wallet) was answered 200, a
\* /find-wallet request by id or by wallet whose ledger read succeeds is
\* answered 200 and reports userId = id and walletAddress = wallet.
C7_FindAfterLink ==
    \A s, t \in Slots :
        (/\ req[t].h = "link" /\ req[t].ver = "current" /\ req[t].res.status = 200
         /\ req[s].h = "find" /\ req[s].ver = "current" /\ t \in req[s].after
         /\ req[s].pc = "done" /\ ~req[s].loc.infra
         /\ \/ req[s].body = [userID |-> req[t].body.userID, walletAddress |-> Undefined]
            \/ req[s].body = [userID |-> Undefined, walletAddress |-> req[t].body.walletAddress])
        => /\ req[s].res.status = 200
           /\ req[s].res.details.relation.userId = req[t].body.userID.s
           /\ req[s].res.details.relation.walletAddress = req[t].body.walletAddress.s

\* C7 witness: a link answered 200 and a later find by wallet answered 200.
C7_Witness ==
    \E s, t \in Slots :
        /\ req[t].h = "link" /\ req[t].ver = "current" /\ req[t].res.status = 200
        /\ req[s].h = "find" /\ req[s].ver = "current" /\ t \in req[s].after
        /\ req[s].body = [userID |-> Undefined, walletAddress |-> req[t].body.walletAddress]
        /\ req[s].res.status = 200

\* A field of a response's details, <<>> when the response has none.
Detail(res, name) ==
    IF "details" \in DOMAIN res /\ name \in DOMAIN res.details THEN <<res.details[name]>> ELSE <<>>

Success(r) == r.res.status \in {200, 201, 202}

\* A /register body that passes the validation the specification asks for.
ValidRegBody(b) ==
    /\ b.walletType \in {Str("standard"), Str("crossmint")}
    /\ b.contentHash.type = "string" /\ b.contentHash.s \in Hex64
    /\ b.walletAddress.type = "string" /\ b.walletAddress.s \in PublicKeys
    /\ Truthy(b.contentTitle) /\ b.contentTitle.type = "string"

\* Request s is a valid /register of the handler at part_003 280-589 for the
\* pair of request t, arrived after t's success response, is answered, and
\* its ledger reads succeeded.
RegisteredAgain(s, t) ==
    /\ req[t].h = "register" /\ req[t].ver = "current" /\ Success(req[t])
    /\ req[s].h = "register" /\ req[s].ver = "current" /\ t \in req[s].after
    /\ req[s].body.walletAddress = req[t].body.walletAddress
    /\ req[s].body.contentHash = req[t].body.contentHash
    /\ ValidRegBody(req[s].body)
    /\ req[s].pc = "done" /\ ~req[s].loc.infra

C5_UploadFailureAborts ==
    \A s \in Slots :
        req[s].h = "register" =>
            /\ (req[s].loc.uploaded /\ req[s].loc.rootCid = "") =>
                    /\ req[s].pc = "done"
                    /\ ~Success(req[s]) /\ req[s].res.error
                    /\ req[s].loc.built = <<>>
                    /\ ~req[s].loc.submitted
                    /\ ~req[s].loc.insertCalled
            /\ req[s].loc.built # <<>> =>
                    /\ req[s].loc.uploaded
                    /\ req[s].loc.rootCid # ""
                    /\ req[s].loc.built[1].ipfsCid = req[s].loc.rootCid
            /\ (req[s].loc.submitted \/ req[s].loc.insertCalled) => req[s].loc.built # <<>>

\* C5 witness: the storage provider answered without a content identifier
\* and the request ended with 500.
C5_Witness ==
    \E s \in Slots :
        /\ req[s].h = "register" /\ req[s].loc.uploaded /\ req[s].loc.rootCid = ""
        /\ req[s].res.status = 500
        /\ req[s].res.message = "Invalid response from QuickNode IPFS - missing CID"

\* The ledger holds a wallet-to-identity relation for the wallet.
WalletLinked(w) ==
    \E a \in relations :
        a.address = <<"user_key_relations_program", <<"wallet_to_user_id", w>>>>

\* C6 as stated: a register request whose creator wallet has no
\* wallet-to-identity relation ends with 409, whatever the other fields, and
\* uploads and submits nothing.
C6_UnlinkedIsConflict ==
    \A s \in Slots :
        (/\ req[s].h = "register" /\ req[s].pc = "done"
         /\ req[s].body.walletAddress.type = "string"
         /\ ~WalletLinked(req[s].body.walletAddress.s))
        => /\ req[s].res.status = 409
           /\ ~req[s].loc.uploaded
           /\ ~req[s].loc.submitted

\* The submission mode as the specification defines it.
ExpectedStatus(walletType, returnActionLink) ==
    IF walletType = Str("crossmint") THEN "confirmed"
    ELSE IF returnActionLink = Bool(TRUE) THEN "action-link-created"
    ELSE "requires-client-signature"

\* C9: in the handler at part_003 280-589 the mode is decided by
\* (walletType, returnActionLink) alone: a success response carries the
\* status of that mode, only custodial mode submits, only token mode inserts,
\* and a failed submission or insert yields an error response.
C9_ModeIsFunction ==
    \A s \in Slots :
        (req[s].h = "register" /\ req[s].ver = "current") =>
            LET expected == ExpectedStatus(req[s].body.walletType, req[s].body.returnActionLink)
            IN  /\ Success(req[s]) => Detail(req[s].res, "status") = <<expected>>
                /\ req[s].loc.submitted => expected = "confirmed"
                /\ req[s].loc.insertCalled => expected = "action-link-created"
                /\ req[s].pc = "submit" => expected = "confirmed"
                /\ req[s].pc = "insert" => expected = "action-link-created"
                /\ (Success(req[s]) /\ expected = "confirmed") => req[s].loc.outcome = "executed"
                /\ (Success(req[s]) /\ expected = "action-link-created") => req[s].loc.inserted
                /\ (req[s].loc.insertCalled /\ ~req[s].loc.inserted) => req[s].res.status = 500
                /\ (req[s].loc.submitted /\ req[s].loc.outcome # "executed") => req[s].res.status = 500

\* C9 witness: a token-mode request whose insert failed and that was answered
\* 500, beside a token-mode request answered with the action link.
C9_Witness ==
    \E s, t \in Slots :
        /\ req[s].h = "register" /\ req[s].ver = "current"
        /\ req[s].loc.insertCalled /\ ~req[s].loc.inserted /\ req[s].res.status = 500
        /\ req[t].h = "register" /\ req[t].ver = "current"
        /\ req[t].res.status = 200 /\ req[t].loc.inserted

\* C10 as stated: a custodial register answers with success only if the
\* submission returned without error, and with the upstream error when the
\* submission reported one.
C10_CustodialSuccessOnlyIfSubmitted ==
    \A s \in Slots :
        (/\ req[s].h = "register" /\ req[s].pc = "done"
         /\ req[s].body.walletType = Str("crossmint") /\ req[s].loc.submitted)
        => /\ Success(req[s]) => req[s].loc.outcome = "executed"
           /\ req[s].loc.outcome = "rejected" =>
                (req[s].res.status >= 400 /\ req[s].res.message = "ledger rejected the transaction")

\* Request s is a valid /link-wallet request that reuses the userID or the
\* wallet of the link t answered 200 before s arrived; its reads succeeded.
LinkedAgain(s, t) ==
    /\ req[t].h = "link" /\ req[t].ver = "current" /\ req[t].res.status = 200
    /\ req[s].h = "link" /\ t \in req[s].after /\ req[s].pc = "done"
    /\ Truthy(req[s].body.userID) /\ ValidPublicKey(req[s].body.walletAddress)
    /\ ~req[s].loc.infra
    /\ \/ req[s].body.userID = req[t].body.userID
       \/ req[s].body.walletAddress = req[t].body.walletAddress

\* C8 as stated: a link request whose externalId or walletAddress is linked
\* already ends with 409 and submits nothing, and the response names the
\* direction that collided and the existing counterpart.
C8_ConflictNamesCounterpart ==
    \A s, t \in Slots :
        LinkedAgain(s, t) =>
            /\ req[s].res.status = 409
            /\ ~req[s].loc.submitted
            /\ IF req[s].body.userID = req[t].body.userID
               THEN /\ Detail(req[s].res, "conflictType") = <<"User ID already linked">>
                    /\ Detail(req[s].res, "existingWallet") = <<req[t].body.walletAddress.s>>
               ELSE /\ Detail(req[s].res, "conflictType") = <<"Wallet already linked">>
                    /\ Detail(req[s].res, "existingUserID") = <<req[t].body.userID.s>>

\* A request in client-deferred-immediate mode of the handler at
\* part_003 280-589: a standard wallet that did not ask for an action link.
StdImmediate(r) ==
    /\ r.h = "register" /\ r.ver = "current"
    /\ r.body.walletType = Str("standard")
    /\ r.body.returnActionLink # Bool(TRUE)

C11_Step ==
    /\ \A s \in Slots :
          (StdImmediate(req'[s]) /\ req'[s] # req[s]) =>
              /\ registrations' = registrations
              /\ actions' = actions
              /\ ~req'[s].loc.submitted
              /\ ~req'[s].loc.insertCalled
    /\ \A s \in Slots :
          (StdImmediate(req'[s]) /\ Success(req'[s])) =>
              /\ Detail(req'[s].res, "status") = <<"requires-client-signature">>
              /\ Detail(req'[s].res, "transaction") # <<>>
              /\ req'[s].res.details.transaction.type = "string"
              /\ Deserializable(req'[s].res.details.transaction)
              /\ LET i == TransactionFrom(req'[s].res.details.transaction).instructions[1]
                 IN  /\ i.op = "submitRegistration"
                     /\ i.creator = req'[s].body.walletAddress.s
                     /\ i.contentHash = req'[s].body.contentHash.s
                     /\ i.contentRegistration = req'[s].res.details.contentRegistrationPDA
    /\ registrations' # registrations =>
          \E s \in Slots :
              \/ req[s].pc = "idle" /\ req'[s].h = "transactions" /\ req'[s].loc.sent
              \/ /\ req[s].h = "register" /\ req[s].pc = "submit"
                 /\ req[s].body.walletType = Str("crossmint")

\* C11: a standard-wallet register without action link answers with the
\* serialized unsigned transaction and status "requires-client-signature";
\* no step of it changes the ledger or the token table, it never submits and
\* never inserts; a registration account appears only in a step that is a
\* /transactions send or a custodial submission.
C11_DeferredWritesNothing == [][C11_Step]_vars

\* C11 witness: the transaction such a register returned was sent to
\* /transactions afterwards and the registration account is at the address
\* the register response reported.
C11_Witness ==
    \E s, t \in Slots :
        /\ StdImmediate(req[t]) /\ req[t].res.status = 200
        /\ req[s].h = "transactions" /\ t \in req[s].after
        /\ req[s].body.transaction = req[t].res.details.transaction
        /\ req[s].loc.sent
        /\ \E a \in registrations : a.address = req[t].res.details.contentRegistrationPDA

\* A request in client-deferred-token mode of the handler at part_003 280-589.
TokenMode(r) ==
    /\ r.h = "register" /\ r.ver = "current"
    /\ r.body.walletType = Str("standard")
    /\ r.body.returnActionLink = Bool(TRUE)

C12_Step ==
    \A s \in Slots :
        /\ (TokenMode(req'[s]) /\ Success(req'[s]) /\ ~Success(req[s])) =>
              LET d == req'[s].res.details
                  added == actions' \ actions
              IN  /\ req[s].pc = "insert"
                  /\ actions \subseteq actions'
                  /\ Cardinality(added) = 1
                  /\ \A a \in added :
                        /\ a.token = d.token
                        /\ Deserializable(a.unsigned_transaction)
                        /\ TransactionFrom(a.unsigned_transaction).instructions[1].op = "submitRegistration"
                        /\ TransactionFrom(a.unsigned_transaction).instructions[1].creator
                               = req[s].body.walletAddress.s
                        /\ TransactionFrom(a.unsigned_transaction).instructions[1].contentHash
                               = req[s].body.contentHash.s
                        /\ a.expires_at = req[s].loc.issuedAt + 24 * 60 * 60 * 1000
                        /\ d.expiresAt = <<"iso", a.expires_at>>
                  /\ d.status = "action-link-created"
                  /\ d.actionLink = <<"http://trustengine.org/tx-action/", d.token>>
                  /\ "transaction" \notin DOMAIN d
        /\ (TokenMode(req'[s]) /\ req'[s] # req[s] /\ ~Success(req'[s])) => actions' = actions

\* C12: a successful register in client-deferred-token mode inserts exactly
\* one action-token record, which holds the unsigned transaction and expires
\* 24 hours after the handler issued it; the response has status
\* "action-link-created", the record's token and expiry, the link
\* base URL + /tx-action/{token}, and no raw transaction; a step of such a
\* request that does not end in success inserts nothing.
C12_TokenRecord == [][C12_Step]_vars

\* C12 witness: a token issued after the clock had advanced, its record in
\* the datastore expiring 24 hours after issuance.
C12_Witness ==
    \E s \in Slots :
        /\ TokenMode(req[s]) /\ req[s].res.status = 200
        /\ req[s].loc.issuedAt > 0
        /\ \E a \in actions :
              /\ a.token = req[s].res.details.token
              /\ a.expires_at = req[s].loc.issuedAt + 24 * 60 * 60 * 1000

\* Request s is an answered redeem call.
Redeemed(s) == req[s].h = "redeem" /\ req[s].pc = "done"

C13_State ==
    /\ \A s, t \in Slots :
          (s # t /\ Redeemed(s) /\ Redeemed(t) /\ req[s].body.token = req[t].body.token)
          => ~(Success(req[s]) /\ Success(req[t]))
    /\ \A s \in Slots :
          (Redeemed(s) /\ Success(req[s])) =>
              \E a \in actions :
                  /\ a.token = req[s].body.token
                  /\ req[s].loc.executedAt <= a.expires_at
                  /\ a.status = "consumed"

C13_Step ==
    /\ \A s \in Slots :
          (req[s].h = "redeem" /\ req[s].pc = "redeem" /\ Success(req'[s])) =>
              \E a \in actions :
                  /\ a.token = req[s].body.token
                  /\ a.status = "unused"
                  /\ now <= a.expires_at
    /\ \A a \in actions :
          a.status = "consumed" =>
              \A b \in actions' : b.token = a.token => b.status = "consumed"

\* C13: for every issued token, over any sequence of redeem calls and clock
\* advances, a redeem succeeds only on a record that is unused and not past
\* its expiry, the record is consumed from then on, and so no two redeems
\* of one token succeed and none succeeds once now > expiresAt.
C13_RedeemOnce == [](C13_State) /\ [][C13_Step]_vars

\* C13 witness: a redeem succeeded, and a later redeem of the same token,
\* made before the expiry, failed.
C13_Witness ==
    \E s, t \in Slots :
        /\ Redeemed(t) /\ Success(req[t])
        /\ Redeemed(s) /\ t \in req[s].after
        /\ req[s].body.token = req[t].body.token
        /\ req[s].res.status = 409
        /\ \E a \in actions : a.token = req[s].body.token /\ req[s].loc.executedAt <= a.expires_at

\* Requests s and t are redeem calls for one token that ran concurrently:
\* neither arrived after the other was answered, the token was unused when
\* each arrived, and it has not expired.
ConcurrentRedeems(s, t) ==
    /\ s # t /\ Redeemed(s) /\ Redeemed(t)
    /\ req[s].body.token = req[t].body.token
    /\ t \notin req[s].after /\ s \notin req[t].after
    /\ req[s].loc.unusedAtArrival /\ req[t].loc.unusedAtArrival
    /\ \E a \in actions : a.token = req[s].body.token /\ now <= a.expires_at

\* C14: of two concurrent redeem calls for the same unused, unexpired token
\* exactly one succeeds, in every interleaving.
C14_ExactlyOneRedeem ==
    \A s, t \in Slots :
        ConcurrentRedeems(s, t) => (Success(req[s]) /\ ~Success(req[t])) \/ (Success(req[t]) /\ ~Success(req[s]))

\* C14 witness: two concurrent redeem calls, both answered.
C14_Witness ==
    \E s, t \in Slots : ConcurrentRedeems(s, t) /\ Success(req[s]) /\ req[t].res.status = 409

\* C15 as stated: when a ledger read of an existence check failed for
\* another reason than not-found, the handler surfaces an infrastructure
\* error at once: it does not go on to an upload or a submission, and it
\* answers neither success nor Conflict.
C15_ReadFailureSurfaced ==
    \A s \in Slots :
        (req[s].h \in {"link", "register"} /\ req[s].ver = "current" /\ req[s].loc.infra) =>
            /\ req[s].pc = "done"
            /\ req[s].res.status >= 500
            /\ ~req[s].loc.submitted
            /\ req[s].h = "register" => ~req[s].loc.uploaded

\* The position of the first instruction of a program outside the allow-list.
FirstForeign(s) ==
    CHOOSE k \in 1..Len(TxInstructions(s)) :
        /\ ~AllowListed(TxInstructions(s)[k].programId)
        /\ \A j \in 1..(k - 1) : AllowListed(TxInstructions(s)[j].programId)

\* C16: a 403 response of /transactions names in unauthorizedProgram the
\* program of the first instruction, in instruction order, that is outside
\* the allow-list, and allowedPrograms lists exactly the five allowed programs.
C16_ReportsOffender ==
    \A s \in Slots :
        (req[s].h = "transactions" /\ req[s].res.status = 403) =>
            /\ TxRequest(s) /\ HasForeignInstruction(s)
            /\ Detail(req[s].res, "unauthorizedProgram")
                  = <<<<"base58", TxInstructions(s)[FirstForeign(s)].programId>>>>
            /\ Detail(req[s].res, "allowedPrograms") # <<>>
            /\ Len(req[s].res.details.allowedPrograms) = 5
            /\ {req[s].res.details.allowedPrograms[k] : k \in 1..5}
                  = {<<"base58", p>> : p \in {zkp_program, user_key_relations_program,
                        staking_program, SystemProgram, ComputeBudgetProgram}}

\* C16 witness: a rejected transaction with two instructions of two
\* different programs outside the allow-list.
C16_Witness ==
    \E s \in Slots :
        /\ req[s].h = "transactions" /\ req[s].res.status = 403
        /\ Len(TxInstructions(s)) = 2
        /\ ~AllowListed(TxInstructions(s)[1].programId)
        /\ ~AllowListed(TxInstructions(s)[2].programId)
        /\ TxInstructions(s)[1].programId # TxInstructions(s)[2].programId

\* A query parameter is supplied when it is present with a non-empty value.
Supplied(v) == v.type # "undefined" /\ v # Str("")

\* C17: an answered find request was rejected with the "exactly one" 400
\* error, without a ledger read, if neither or both of userID and
\* walletAddress were supplied; if exactly one was supplied, no response
\* carries the "exactly one" error.
C17_ExactlyOne ==
    \A s \in Slots :
        (req[s].h = "find" /\ req[s].pc = "done") =>
            IF Supplied(req[s].body.userID) = Supplied(req[s].body.walletAddress)
            THEN /\ req[s].res.status = 400
                 /\ \E e \in Detail(req[s].res, "validationErrors")[1] : e = "invalid_parameters"
                 /\ ~req[s].loc.fetched
            ELSE \/ Detail(req[s].res, "validationErrors") = <<>>
                 \/ "invalid_parameters" \notin Detail(req[s].res, "validationErrors")[1]

\* C17 witness: a find with both parameters answered 400 while the relation
\* it names is on the ledger.
C17_Witness ==
    \E s \in Slots :
        /\ req[s].h = "find" /\ req[s].pc = "done"
        /\ req[s].body = [userID |-> Str("u1"), walletAddress |-> Str("w1")]
        /\ req[s].res.status = 400
        /\ \E a \in relations : a.userId = "u1" /\ a.userPublicKey = "w1"

\* The ledger holds no relation for the one parameter of find request s.
NoRelationFor(s) ==
    IF Supplied(req[s].body.userID)
    THEN ~\E a \in relations : a.userId = req[s].body.userID.s
    ELSE ~\E a \in relations : a.userPublicKey = req[s].body.walletAddress.s

\* C18 as stated: a find by a userID or a walletAddress that has no relation
\* on the ledger is answered 409, never 200.
C18_NotFoundIsConflict ==
    \A s \in Slots :
        (/\ req[s].h = "find" /\ req[s].pc = "done" /\ req[s].loc.fetched
         /\ NoRelationFor(s))
        => req[s].res.status = 409

\* The fields of a register body that are missing or malformed, leaving
\* aside the format of contentHash and walletAddress.
OffendingFields(b) ==
    {f \in {"contentTitle", "walletAddress", "walletType", "contentHash"} : b[f].type = "undefined"}
    \cup (IF b.walletType \notin {Str("standard"), Str("crossmint")} THEN {"walletType"} ELSE {})
    \cup (IF b.claimHash.type # "undefined" /\ ~(b.claimHash.type = "string" /\ b.claimHash.s \in Hex64)
          THEN {"claimHash"} ELSE {})

\* The fields a 400 response lists.
ListedFields(res) ==
    IF Detail(res, "validationErrors") = <<>> THEN {}
    ELSE UNION {e.fields : e \in res.details.validationErrors}

\* C19 as stated: a register request with several offending fields is
\* answered with one 400 response that lists every one of them.
C19_ListsEveryField ==
    \A s \in Slots :
        (req[s].h = "register" /\ Cardinality(OffendingFields(req[s].body)) >= 2) =>
            /\ req[s].pc = "done"
            /\ req[s].res.status = 400
            /\ OffendingFields(req[s].body) \subseteq ListedFields(req[s].res)

\* C20 as stated: a register request whose contentHash is not exactly 64 hex
\* characters, or whose walletAddress is not a structurally valid address,
\* is rejected with 400: it is neither answered 500 nor processed further.
\* Stated for requests whose fields are all present and otherwise valid.
C20_BadFormatIs400 ==
    \A s \in Slots :
        (/\ req[s].h = "register" /\ req[s].ver = "current"
         /\ req[s].body.contentHash.type = "string" /\ req[s].body.walletAddress.type = "string"
         /\ OffendingFields(req[s].body) = {}
         /\ \/ req[s].body.contentHash.s \notin Hex64
            \/ req[s].body.walletAddress.s \notin PublicKeys)
        => (req[s].pc = "done" /\ req[s].res.status = 400)

\* C21 as stated: a /transactions request whose transaction field is a
\* non-empty string that does not deserialize into a transaction is answered
\* 400, and nothing is signed or submitted.
C21_UndecodableIs400 ==
    \A s \in Slots :
        (/\ req[s].h = "transactions"
         /\ req[s].body.transaction.type = "string"
         /\ Truthy(req[s].body.transaction)
         /\ ~Deserializable(req[s].body.transaction))
        => /\ req[s].pc = "done"
           /\ req[s].res.status = 400
           /\ ~req[s].loc.signed
           /\ ~req[s].loc.sendCalled

\* The externalId or the walletAddress of link request s, both strings, is
\* one the specification rejects: an externalId that is empty or longer than
\* 200 characters, or a walletAddress that is no valid address.
LinkInputRejected(s) ==
    LET userID == req[s].body.userID
        walletAddress == req[s].body.walletAddress
    IN  /\ userID.type = "string" /\ walletAddress.type = "string"
        /\ \/ StrLen(userID.s) = 0
           \/ StrLen(userID.s) > 200
           \/ ~ValidPublicKey(walletAddress)

\* C22 as stated: link answers 400, with nothing submitted, when the
\* externalId is empty or longer than 200 characters or the walletAddress is
\* not a valid address; a request with a valid address and an externalId of
\* exactly 200 characters is accepted: it is answered neither 400 nor by the
\* 500 of an exception thrown before the first ledger read.
C22_LinkValidation ==
    \A s \in Slots :
        req[s].h = "link" =>
            /\ LinkInputRejected(s) =>
                    /\ req[s].pc = "done"
                    /\ req[s].res.status = 400
                    /\ ~req[s].loc.submitted
            /\ (/\ req[s].body.userID.type = "string"
                /\ StrLen(req[s].body.userID.s) = 200
                /\ ValidPublicKey(req[s].body.walletAddress)) =>
                    /\ req[s].res.status # 400
                    /\ Detail(req[s].res, "error") \notin
                          {<<"findProgramAddressSync failed">>, <<"new PublicKey failed">>}

\* C23 as stated: a 500 response produced by a handler's catch of an
\* unexpected error carries the generic message only: the text of the
\* underlying error is not in the response body.
C23_GenericOnly ==
    \A s \in Slots :
        (/\ req[s].pc = "done" /\ req[s].res.status = 500
         /\ "message" \in DOMAIN req[s].res
         /\ req[s].res.message = "generic")
        => Detail(req[s].res, "error") = <<>>

\* Requests s and t are two custodial /register requests of one handler for
\* the same (creator, contentHash) that were in flight at the same time, and
\* both have been answered.
ConcurrentRegisters(s, t) ==
    /\ s # t
    /\ req[s].h = "register" /\ req[t].h = "register" /\ req[s].ver = req[t].ver
    /\ req[s].body.walletType = Str("crossmint") /\ req[t].body.walletType = Str("crossmint")
    /\ req[s].body.walletAddress = req[t].body.walletAddress
    /\ req[s].body.contentHash = req[t].body.contentHash
    /\ s \notin req[t].after /\ t \notin req[s].after
    /\ req[s].pc = "done" /\ req[t].pc = "done"

\* C24 as stated: of two concurrent custodial register requests for the same
\* pair, the ledger holds at most one registration account of the pair, at
\* most one request is answered with success, and a request whose write the
\* ledger rejected is answered with an error.
C24_OneWinner ==
    \A s, t \in Slots :
        ConcurrentRegisters(s, t) =>
            /\ Cardinality({a \in registrations :
                    /\ a.creator = req[s].body.walletAddress.s
                    /\ a.contentHash = BufferFromHex(req[s].body.contentHash.s)}) <= 1
            /\ ~(Success(req[s]) /\ Success(req[t]))
            /\ req[s].loc.outcome = "rejected" =>
                    (req[s].res.status >= 400 /\ req[s].res.error)

\* Requests s and t are two /link-wallet requests of one handler that name
\* the same externalId or the same walletAddress and were in flight at the
\* same time.
ContendingLinks(s, t) ==
    /\ s # t
    /\ req[s].h = "link" /\ req[t].h = "link" /\ req[s].ver = req[t].ver
    /\ \/ req[s].body.userID = req[t].body.userID
       \/ req[s].body.walletAddress = req[t].body.walletAddress
    /\ s \notin req[t].after /\ t \notin req[s].after

\* C25 as stated: of concurrent link requests that contend on one externalId
\* or on one walletAddress at most one is answered 200, and a link request
\* is answered 200 only if its ledger submission reported no error, so that
\* the relation it names is on the ledger.
C25_OneLinkWins ==
    /\ \A s, t \in Slots :
          ContendingLinks(s, t) => ~(req[s].res.status = 200 /\ req[t].res.status = 200)
    /\ \A s \in Slots :
          (req[s].h = "link" /\ req[s].res.status = 200) =>
              /\ req[s].loc.submitted
              /\ \E a \in relations :
                    /\ a.address = userIdToWalletRelationPDA(req[s].body.userID.s)
                    /\ a.userPublicKey = req[s].body.walletAddress.s

\* The record keyed by externalId id, and the record keyed by wallet w: the
\* accounts at the addresses derived from the seeds of each view.
RecordOfId(id) ==
    {a \in relations : a.address = <<user_key_relations_program, <<"user_id_to_wallet", id>>>>}
RecordOfWallet(w) ==
    {a \in relations : a.address = <<user_key_relations_program, <<"wallet_to_user_id", w>>>>}

\* The two views agree, and every record belongs to one of the views.
C26_State ==
    /\ \A a \in relations : a \in RecordOfId(a.userId) \cup RecordOfWallet(a.userPublicKey)
    /\ \A a \in relations :
          /\ (\E b \in RecordOfId(a.userId) : b.userPublicKey = a.userPublicKey)
             <=> (\E b \in RecordOfWallet(a.userPublicKey) : b.userId = a.userId)
          /\ RecordOfId(a.userId) # {} /\ RecordOfWallet(a.userPublicKey) # {}

\* A step that changes the relations is the submission of a link or
\* create-wallet request that passed both pre-checks, and it adds the two
\* records of that request's pair, at addresses that were free, and nothing
\* else.
C26_Step ==
    relations' # relations =>
        \E s \in Slots :
            /\ req[s].h \in {"link", "create"} /\ req[s].pc = "submit" /\ req'[s].pc = "done"
            /\ LET id == req[s].body.userID.s
                   w == IF req[s].h = "link" THEN req[s].body.walletAddress.s ELSE req[s].loc.created
                   idAddress == <<user_key_relations_program, <<"user_id_to_wallet", id>>>>
                   walletAddress == <<user_key_relations_program, <<"wallet_to_user_id", w>>>>
               IN  /\ ~\E a \in relations : a.address \in {idAddress, walletAddress}
                   /\ relations' = relations \cup
                        {[address |-> idAddress, userId |-> id, userPublicKey |-> w],
                         [address |-> walletAddress, userId |-> id, userPublicKey |-> w]}

\* C26: in every reachable ledger state the record keyed by an externalId
\* names wallet w if and only if the record keyed by w names that
\* externalId, and no directional record exists without the other; the
\* relations change only when a link or create-wallet request whose two
\* pre-checks found no record submits its one instruction, which adds both
\* records at once.
C26_ViewsAgree == [](C26_State) /\ [][C26_Step]_vars

\* C26 witness: one relation written by link and one written by
\* create-wallet, four records in all.
C26_Witness ==
    \E s, t \in Slots :
        /\ req[s].h = "link" /\ req[s].ver = "current" /\ req[s].res.status = 200
        /\ req[t].h = "create" /\ req[t].res.status = 201
        /\ Cardinality(relations) = 4
        /\ RecordOfId(req[s].body.userID.s) # {}
        /\ RecordOfWallet(req[t].loc.created) # {}

\* Register request s ended in the duplicate Conflict, or in the response
\* that names the missing identity relation.
DuplicateConflict(s) ==
    req[s].h = "register" /\ req[s].res.status = 409 /\ Detail(req[s].res, "pdaAddress") # <<>>
MissingPrerequisite(s) ==
    req[s].h = "register" /\ Detail(req[s].res, "missingRequirement") # <<>>

\* The registration of request s's pair was written, through /transactions,
\* by a request that was answered before s arrived.
RegisteredBefore(s) ==
    \E t \in req[s].after :
        /\ req[t].h = "transactions" /\ req[t].res.status = 200
        /\ \E k \in 1..Len(TxInstructions(t)) :
              /\ TxInstructions(t)[k].op = "submitRegistration"
              /\ TxInstructions(t)[k].contentRegistration = RegPda(req[s].body)

\* C27 as stated: register checks for a duplicate first, then for the
\* identity relation, then uploads, then builds and submits: a request that
\* ended in either Conflict uploaded and submitted nothing; a request for a
\* registration that exists and a wallet that is unlinked gets the duplicate
\* Conflict with the existing address; and the missing-prerequisite response
\* is a 409 that names "User-Key Relation".
C27_OrderOfChecks ==
    \A s \in Slots :
        /\ (DuplicateConflict(s) \/ MissingPrerequisite(s)) =>
                (~req[s].loc.uploaded /\ ~req[s].loc.submitted)
        /\ (req[s].h = "register" /\ req[s].loc.submitted) => req[s].loc.uploaded
        /\ (/\ req[s].h = "register" /\ req[s].pc = "done" /\ ~req[s].loc.infra
            /\ RegisteredBefore(s) /\ ~WalletLinked(req[s].body.walletAddress.s)) =>
                /\ DuplicateConflict(s)
                /\ req[s].res.details.pdaAddress = RegPda(req[s].body)
        /\ MissingPrerequisite(s) =>
                /\ req[s].res.status = 409
                /\ req[s].res.details.missingRequirement = "User-Key Relation"

\* Register request t of the handler at part_003 280-589 failed at the
\* upload step or at the submission step.
FailedAfterChecks(t) ==
    /\ req[t].h = "register" /\ req[t].ver = "current"
    /\ req[t].pc = "done" /\ req[t].loc.uploaded
    /\ req[t].res.status >= 400

\* The registration accounts of register request t's pair.
RegistrationsOf(t) ==
    {a \in registrations : a.address = RegPda(req[t].body)}

\* Request s is a retry of register request t: the same pair, sent to the
\* same handler after t was answered, and answered with its reads succeeding.
RetryOf(s, t) ==
    /\ s # t /\ req[s].h = "register" /\ req[s].ver = "current" /\ t \in req[s].after
    /\ req[s].body.walletAddress = req[t].body.walletAddress
    /\ req[s].body.contentHash = req[t].body.contentHash
    /\ req[s].pc = "done" /\ ~req[s].loc.infra

\* The step in which register request t, whose reads succeeded, fails at the
\* upload or at the submission step.
FailsAfterChecks(t) ==
    /\ req[t].h = "register" /\ req[t].ver = "current" /\ req[t].pc \in {"upload", "submit"}
    /\ ~req[t].loc.infra
    /\ req'[t].pc = "done" /\ req'[t].res.status >= 400

C28_Step ==
    \A t \in Slots :
        (/\ req[t].h = "register" /\ req[t].ver = "current" /\ req[t].pc \in {"upload", "submit"}
         /\ req'[t].pc = "done" /\ req'[t].res.status >= 400)
        => registrations' = registrations

\* A retry is rejected as a duplicate only when the pair's account is on
\* the ledger.
C28_State ==
    \A s, t \in Slots :
        (FailedAfterChecks(t) /\ RetryOf(s, t) /\ RegistrationsOf(t) = {}) =>
            ~DuplicateConflict(s)

Readers == {"find", "search", "validators", "health"}

\* A step of a reading handler in slot s: its request arrives, or goes on.
ReaderStep(s) ==
    \/ req[s].pc = "idle" /\ req'[s].h \in Readers
    \/ req[s].h \in Readers /\ req[s].pc \notin {"idle", "done"} /\ req'[s] # req[s]

\* C30: no step of a find-wallet, search, validators/data or health request,
\* whatever its input and whether it ends in success or in an error, changes
\* the ledger's relations or registrations (no transaction submitted), the
\* custodial provider's wallets, or the action-token store; and such a
\* request never carries the mark of an upload or a submission.
C30_ReadersOnlyRead ==
    [][\A s \in Slots :
          ReaderStep(s) =>
              /\ UNCHANGED <<relations, registrations, actions, wallets>>
              /\ "uploaded" \notin DOMAIN req'[s].loc
              /\ "submitted" \notin DOMAIN req'[s].loc]_vars

\* C30 witness: a search answered 200 and a validators/data request answered
\* 200, while a link request has written a second relation.
C30_Witness ==
    \E s, t \in Slots :
        /\ req[s].h = "search" /\ req[s].res.status = 200
        /\ req[t].h = "validators" /\ req[t].res.status = 200
        /\ Cardinality(relations) = 4

\* No account of the ledger is removed or changed by the step.
C29_Step ==
    /\ \A a \in relations : a \in relations'
    /\ \A a \in registrations : a \in registrations'

\* Request s is a find that arrived after link request t was answered 200
\* and asks for t's externalId or for t's wallet; its read succeeded.
FindsRelationOf(s, t) ==
    /\ req[t].h = "link" /\ req[t].res.status = 200
    /\ req[s].h = "find" /\ t \in req[s].after /\ req[s].pc = "done" /\ ~req[s].loc.infra
    /\ \/ req[s].body = [userID |-> req[t].body.userID, walletAddress |-> Undefined]
       \/ req[s].body = [userID |-> Undefined, walletAddress |-> req[t].body.walletAddress]

\* Request s is a search that arrived after register request t was answered
\* with status "confirmed" and asks for t's content hash, with t's wallet or
\* with none; its read succeeded.
SearchesRegistrationOf(s, t) ==
    /\ req[t].h = "register" /\ req[t].res.status = 200
    /\ Detail(req[t].res, "status") = <<"confirmed">>
    /\ req[s].h = "search" /\ t \in req[s].after /\ req[s].pc = "done" /\ ~req[s].loc.infra
    /\ req[s].body.contentHash = req[t].body.contentHash
    /\ req[s].body.walletAddress \in {Undefined, req[t].body.walletAddress}

\* An address holds one account, and what link and register reported when
\* they created an account is what a later find or search returns.
C29_State ==
    /\ \A a, b \in relations : a.address = b.address => a = b
    /\ \A a, b \in registrations : a.address = b.address => a = b
    /\ \A s, t \in Slots :
          FindsRelationOf(s, t) =>
              /\ req[s].res.status = 200
              /\ req[s].res.details.relation.userId = req[t].body.userID.s
              /\ req[s].res.details.relation.walletAddress = req[t].body.walletAddress.s
    /\ \A s, t \in Slots :
          SearchesRegistrationOf(s, t) =>
              /\ req[s].res.status = 200
              /\ \E e \in req[s].res.registrations :
                    /\ e.registeredBy = req[t].body.walletAddress.s
                    /\ e.contentHash = req[t].body.contentHash.s
                    /\ e.ipfsCid = req[t].res.details.ipfsCid
                    /\ e.pdaAddress = req[t].res.details.contentRegistrationPDA

\* C29: no step of any handler removes an identity relation or a content
\* registration from the ledger or changes one of its fields, and a find or
\* search made after the creating request was answered returns the
\* externalId and wallet, or the creator, content hash and storage
\* identifier, that the creating request reported.
C29_CreatedOnce == [](C29_State) /\ [][C29_Step]_vars

\* C29 witness: a search by content hash alone and answered 200, made after
\* the register request that created the registration, with a second
\* relation written by create-wallet on the ledger.
C29_Witness ==
    \E s, t \in Slots :
        /\ SearchesRegistrationOf(s, t)
        /\ req[s].body.walletAddress = Undefined
        /\ req[s].res.status = 200
        /\ Cardinality(relations) = 4

\* Request s is a search answered 200 whose lookups of the creators'
\* relations all reached the ledger.
SearchAnswered(s) ==
    /\ req[s].h = "search" /\ req[s].pc = "done" /\ req[s].res.status = 200
    /\ ~req[s].loc.lookupFailed

\* The userId the ledger holds for wallet w at the address link-wallet writes.
LinkedUserId(w) ==
    (CHOOSE a \in relations : a.address = walletToUserIdRelationPDA(w)).userId

\* C31: search derives the address of a creator's wallet-to-identity
\* relation as link-wallet does for that wallet (as register and find do),
\* and for every registration it returns whose creator is linked it reports
\* that creator's userID.
C31_SameRelationAddress ==
    \A s \in Slots :
        SearchAnswered(s) =>
            \A e \in req[s].res.registrations :
                /\ userKeyRelationPDA(e.registeredBy) = walletToUserIdRelationPDA(e.registeredBy)
                /\ WalletLinked(e.registeredBy) => e.userID = LinkedUserId(e.registeredBy)

\* The ledger holds an identity relation keyed by the externalId.
UserIdLinked(id) ==
    \E a \in relations : a.address = userIdToWalletRelationPDA(id)

\* Request s has made its check of the userID's relation and not found one.
PastUserIdCheck(s) ==
    req[s].h = "create" /\ req[s].pc = "createWallet"

\* A create-wallet request with a well-formed userID arrives in slot s.
CreateArrives(s) ==
    /\ req[s].pc = "idle" /\ req'[s].h = "create"
    /\ CreateValidationErrors(req'[s].body.userID) = {}
    /\ ~SeedThrows(req'[s].body.userID)

\* A wallet is created only by a request that is past its check, and a
\* request for a linked userID is answered 409 by that check.
C32_Step ==
    /\ wallets' # wallets => \E s \in Slots : PastUserIdCheck(s) /\ req'[s].loc.created \in wallets'
    /\ \A s \in Slots :
          CreateArrives(s) /\ UserIdLinked(req'[s].body.userID.s) =>
              /\ req'[s].pc = "done" /\ req'[s].res.status = 409
              /\ req'[s].loc.created = "none"

\* 201 is sent only for a wallet whose relation is on the ledger.
C32_State ==
    \A s \in Slots :
        req[s].h = "create" /\ req[s].res.status = 201 =>
            \E a \in relations :
                /\ a.address = userIdToWalletRelationPDA(req[s].body.userID.s)
                /\ a.userPublicKey = req[s].loc.created
                /\ a.userPublicKey = req[s].res.details.walletAddress

\* C32: create-wallet asks the custodial provider for a wallet only after
\* its ledger check found no relation for the userID, a request for a
\* userID that is already linked ends with 409 and creates no wallet, and
\* 201 is sent only when the link transaction of the new wallet was
\* submitted without error.
C32_CheckBeforeCreate == [](C32_State) /\ [][C32_Step]_vars

\* Request s is a create-wallet request that ended with an error response
\* after the custodial provider had created its wallet.
CreateFailedAfterWallet(s) ==
    /\ req[s].h = "create" /\ req[s].pc = "done" /\ req[s].res.status >= 400
    /\ req[s].loc.created # "none"

\* C33: when create-wallet ends with an error response after the custodial
\* wallet was created, that wallet is not left without a relation on the
\* ledger and without its address in the response.
C33_NoOrphanWallet ==
    \A s \in Slots :
        CreateFailedAfterWallet(s) =>
            \/ WalletLinked(req[s].loc.created)
            \/ Detail(req[s].res, "walletAddress") = <<req[s].loc.created>>

\* The response of a validation block: 400 with the list of what was wrong.
ValidationResponse(r) ==
    r.pc = "done" /\ r.res.status = 400 /\ Detail(r.res, "validationErrors") # <<>>

\* What the request has recorded of its external calls: nothing uploaded,
\* built, signed, submitted, created or stored, and no read that failed.
NoEffectRecorded(r) ==
    CASE r.h = "register" ->
            /\ ~r.loc.uploaded /\ ~r.loc.submitted /\ ~r.loc.insertCalled /\ ~r.loc.infra
            /\ r.loc.built = <<>>
      [] r.h \in {"link", "create"} ->
            ~r.loc.submitted /\ ~r.loc.infra /\ r.loc.created = "none"
      [] r.h = "transactions" -> ~r.loc.signed /\ ~r.loc.sendCalled
      [] r.h = "validators" -> ~r.loc.infra
      [] OTHER -> TRUE

\* The validation response is sent by the step in which the request
\* arrives, which is before the first ledger read of the handler, and that
\* step changes nothing outside the request.
C34_Step ==
    \A s \in Slots :
        req[s].pc # "done" /\ ValidationResponse(req'[s]) =>
            /\ req[s].pc = "idle"
            /\ UNCHANGED <<relations, registrations, actions, wallets>>

C34_State ==
    \A s \in Slots : ValidationResponse(req[s]) => NoEffectRecorded(req[s])

\* C34: in register, link-wallet, create-wallet, validators/data and
\* /transactions a request answered with the 400 validation response has
\* made no external call before that response: no ledger read, upload,
\* wallet creation, datastore write, signature or submission.
C34_ValidationFirst == [](C34_State) /\ [][C34_Step]_vars

\* The handler of request s has been called and has not answered yet.
Running(s) == req[s].pc \notin {"idle", "done"}

\* A request is answered exactly when it holds a response.
C35_State ==
    \A s \in Slots : (req[s].pc = "done") <=> (req[s].res.status # 0)

\* Once a response is sent it is the response of the request: no later step
\* of the handler sends another, the request only leaves its slot.
C35_Step ==
    \A s \in Slots :
        req[s].pc = "done" =>
            \/ req'[s].pc = "done" /\ req'[s].res = req[s].res
            \/ req'[s] = Idle

\* C35: every invocation of the register, /transactions and link-wallet
\* handlers ends with exactly one response when each external call returns
\* or throws: no step sends a second response, and a handler that has been
\* called, also one whose external call threw or whose input was
\* malformed, comes to its response.
C35_OneResponse ==
    /\ [](C35_State)
    /\ [][C35_Step]_vars
    /\ \A s \in Slots : Running(s) ~> (req[s].pc = "done")

\* C35 witness: a register request answered by its catch block after an
\* external call threw, beside a request answered 200 after its last step.
C35_Witness ==
    \E s, t \in Slots :
        /\ req[s].h = "register" /\ req[s].pc = "done" /\ req[s].res.status = 500
        /\ req[s].loc.uploaded
        /\ req[t].h \in {"transactions", "link"} /\ req[t].pc = "done" /\ req[t].res.status = 200
        /\ IF req[t].h = "link" THEN req[t].loc.submitted ELSE req[t].loc.confirmed

\* Request s has built its registration instruction.
InstructionBuilt(s) ==
    req[s].h = "register" /\ req[s].ver = "current" /\ req[s].loc.built # <<>>

\* The fields the instruction of request s is to carry, from the request
\* and from what its upload returned.
ExpectedInstruction(s) ==
    LET b == req[s].body
    IN  [contentHash |-> b.contentHash.s,
         claimHash |-> IF b.claimHash.type = "undefined" THEN "zero" ELSE b.claimHash.s,
         ipfsCid |-> req[s].loc.rootCid,
         creator |-> b.walletAddress.s,
         contentRegistration |->
            <<"zkp_program", <<"content_registration", b.walletAddress.s, b.contentHash.s>>>>]

\* C36: the registration instruction built by register carries the
\* request's contentHash, its claimHash when one is given and 32 zero bytes
\* when none is, and the storage identifier that the upload of this request
\* returned, and its registration account is the address derived from
\* (creator, contentHash), the one the duplicate check looked up; the
\* account a custodial submission creates holds those fields.
C36_InstructionFields ==
    \A s \in Slots :
        InstructionBuilt(s) =>
            LET i == req[s].loc.built[1]
                e == ExpectedInstruction(s)
            IN  /\ Len(req[s].loc.built) = 1
                /\ i.op = "submitRegistration"
                /\ req[s].loc.uploaded /\ req[s].loc.rootCid # ""
                /\ \A f \in DOMAIN e : i[f] = e[f]
                /\ e.contentRegistration = RegPda(req[s].body)
                /\ req[s].loc.outcome = "executed" =>
                      \E a \in registrations :
                          /\ a.address = e.contentRegistration
                          /\ a.creator = e.creator /\ a.contentHash = e.contentHash
                          /\ a.claimHash = e.claimHash /\ a.ipfsCid = e.ipfsCid

\* C36 witness: two custodial registrations executed, one with a claim hash
\* and one without, of two different documents.
C36_Witness ==
    \E s, t \in Slots :
        /\ InstructionBuilt(s) /\ InstructionBuilt(t)
        /\ req[s].loc.outcome = "executed" /\ req[t].loc.outcome = "executed"
        /\ req[s].body.claimHash = Str("k1") /\ req[t].body.claimHash = Undefined
        /\ req[s].loc.rootCid # req[t].loc.rootCid

\* The server answered the running registerFile call of a standard wallet
\* with status "requires-client-signature".
SignatureRequired ==
    /\ sdk.response.status \in {200, 201, 202}
    /\ Detail(sdk.response, "status") = <<"requires-client-signature">>
    /\ sdk.walletType = "standard"

\* The server answered with a success response of any other kind.
OtherStatus ==
    /\ sdk.response.status \in {200, 201, 202}
    /\ ~SignatureRequired

\* What the call has done and how it ended agrees with the response.
C37_State ==
    /\ sdk.txCalls > 0 => SignatureRequired /\ sdk.signer /\ sdk.signed
    /\ sdk.txCalls <= 1
    /\ SignatureRequired /\ ~sdk.signer =>
          sdk.pc = "threw" /\ sdk.txCalls = 0 /\ \A s \in Slots : req[s].h # "transactions"
    /\ OtherStatus =>
          /\ sdk.pc = "returned" /\ sdk.result.value = sdk.response
          /\ sdk.txCalls = 0 /\ \A s \in Slots : req[s].h # "transactions"

\* /transactions is called by the step in which signTransaction returns,
\* with the transaction it returned.
C37_Step ==
    sdk'.txCalls > sdk.txCalls =>
        /\ sdk.pc = "sign" /\ sdk'.signed
        /\ sdk'.body = Base64(sdk.response.details.transaction.tx)

\* C37: registerFile calls /transactions only for a standard-wallet
\* registration answered "requires-client-signature" and only after
\* signTransaction returned the signed transaction; without a
\* signTransaction function it throws and submits nothing; for any other
\* status it returns the register response as it is and calls nothing.
C37_SignBeforeSubmit == [](C37_State) /\ [][C37_Step]_vars

\* C37 witness: a call that signed, submitted and returned the response of
\* /transactions, the registration being on the ledger.
C37_Witness ==
    /\ sdk.pc = "returned" /\ sdk.txCalls = 1 /\ sdk.signed
    /\ sdk.result.value.status = 200
    /\ \E s \in Slots : req[s].h = "transactions" /\ sdk.result.value = req[s].res
    /\ registrations # {}

\* Caller c starts a call of the named function in this step.
DbCalls(c, op) ==
    db.call[c].pc = "idle" /\ db'.call[c] # db.call[c] /\ db'.call[c].op = op

\* The pool is null exactly before the first initializeDatabase and after a
\* closeDatabase, and no pool in use has been ended.
C38_State ==
    /\ (db.life \in {"none", "closed"}) <=> (db.pool = 0)
    /\ db.life = "initialized" /\ (\A c \in DbCallers : db.call[c].pc # "end") =>
          db.ends[db.pool] = 0
    /\ \A p \in 1..MaxPools : db.ends[p] <= 1 /\ (p > db.made => db.ends[p] = 0)

\* What each call does, by the last lifecycle call that returned before it.
C38_Step ==
    \A c \in DbCallers :
        /\ DbCalls(c, "getDatabase") \/ DbCalls(c, "insertTransactionAction") =>
              IF db.life = "initialized"
              THEN db'.call[c].held = db.pool /\ db'.call[c].result # "notInitialized"
              ELSE db'.call[c].result = "notInitialized" /\ db'.call[c].pc = "idle"
        /\ DbCalls(c, "initializeDatabase") =>
              IF db.life = "initialized"
              THEN db'.pool = db.pool /\ db'.made = db.made /\ db'.call[c].held = db.pool
              ELSE /\ db'.made = db.made + 1 /\ db'.pool = db'.made
                   /\ db'.call[c].held = db'.pool /\ db'.ends[db'.pool] = 0
        /\ DbCalls(c, "closeDatabase") /\ db.life # "initialized" =>
              /\ db'.pool = 0 /\ db'.made = db.made /\ db'.ends = db.ends
              /\ db'.call[c].pc = "idle" /\ db'.call[c].result = "returned"

\* C38: the datastore pool is a singleton with two states: getDatabase and
\* insertTransactionAction fail with 'Database not initialized' before
\* initializeDatabase and after closeDatabase; initializeDatabase repeated
\* without a closeDatabase in between returns the same pool and creates no
\* second one; closeDatabase without a pool does nothing; initializeDatabase
\* after closeDatabase creates a fresh pool.
C38_PoolSingleton == [](C38_State) /\ [][C38_Step]_vars

\* C38 witness: a row stored through the second pool, created after the
\* first one was closed.
C38_Witness ==
    /\ db.made = 2 /\ db.pool = 2 /\ db.ends[1] = 1 /\ db.ends[2] = 0
    /\ db.call[1].op = "insertTransactionAction" /\ db.call[1].result = "returned"
    /\ db.call[1].held = 2 /\ actions # {}

\* C39: under any interleaving of closeDatabase with getDatabase,
\* initializeDatabase, insertTransactionAction and other closeDatabase
\* calls, end() is called at most once on a pool, and no call obtains a
\* pool whose shutdown has begun.
C39_CloseIsExclusive ==
    /\ \A p \in 1..MaxPools : db.ends[p] <= 1
    /\ \A c \in DbCallers :
          db.call[c].op \in {"getDatabase", "initializeDatabase", "insertTransactionAction"}
              => ~db.call[c].ending

====
